---- MODULE Spec2Model ----
(***************************************************************************)
(* Pairing and message relay of the JARVIS mobile client                   *)
(* (src/src/services/api.ts: PairingManager and FirebaseService).          *)
(*                                                                         *)
(* The shared store is the Firebase Realtime Database: pairing/{token},    *)
(* devices/{deviceId} and messages/{deviceId}/...  Every store or storage  *)
(* operation the code awaits is one step of the model: the step is taken   *)
(* when the awaited promise settles, and it either resolves or rejects.    *)
(* The client issues plain get / update / set calls; whether the store     *)
(* accepts a write is the store's decision (security rules, connectivity), *)
(* so a write either is applied or throws.                                 *)
(***************************************************************************)
EXTENDS Integers, Sequences, FiniteSets, TLC

\* ------------------------------------------------------------------ bounds
\* Clock values are 0..MaxTime (epoch seconds, scaled).
MaxTime == 2
\* Public PairingManager calls started in one behaviour.
MaxCalls == 2
\* Awaited operations that reject in one behaviour.
MaxFaults == 1
\* Device identifiers one installation may generate.
MaxGen == 2
\* connect() calls the application makes on one FirebaseService.
MaxConnectCalls == 2
\* Changes of the store's connectivity signal.
MaxNetChanges == 1
\* Subscriptions to .info/connected created in one behaviour.
MaxSubs == 1
\* sendCommand calls in one behaviour.
MaxSends == 1

\* Batches of status messages the desktop writes in one behaviour.
MaxBursts == 2
\* listenForStatus calls in one behaviour.
MaxListens == 3
\* Characters that follow the leading part of a scanned or typed text.
MaxTail == 2

\* ---------------------------------------------- FirebaseService constants
\* Entries the pruning of listenForStatus keeps in the inbox.
PruneKeep == 10
\* Size the set processedMessageIds is cut back to.
ProcessedCap == 50
maxReconnectAttempts == 10
baseReconnectDelay == 1000
maxReconnectDelay == 30000

\* ------------------------------------------------------------- vocabulary
Devices == {"m1", "m2"}
DevIndex(d) == IF d = "m1" THEN 1 ELSE 2
\* A generated identifier `mobile_<16 hex>`: the k-th one of installation d.
NullId == 0
GeneratedId(d, k) == DevIndex(d) * 10 + k
DeviceIds == {GeneratedId(d, k) : d \in Devices, k \in 1..MaxGen}

NullDesktop == "null"
Desktops == {"deskA", "deskB"}
\* pair_a and pair_b were issued by two desktops; pair_x was never issued.
Tokens == {"pair_a", "pair_b", "pair_x"}
NullToken == "none"

\* A record of pairing/{token}; exists = FALSE is the absent path (val() = null).
AbsentToken ==
  [exists |-> FALSE, desktopId |-> NullDesktop, createdAt |-> 0, expiresAt |-> 0,
   used |-> FALSE, mobileId |-> NullId, usedAt |-> 0]
IssuedToken(desktop, created, expires) ==
  [exists |-> TRUE, desktopId |-> desktop, createdAt |-> created, expiresAt |-> expires,
   used |-> FALSE, mobileId |-> NullId, usedAt |-> 0]

\* A record of devices/{deviceId}, reduced to the fields pairing reads and writes.
AbsentDevice ==
  [exists |-> FALSE, paired |-> FALSE, pairedWith |-> NullDesktop, online |-> FALSE]

\* The value under @jarvis_device_config; exists = FALSE is getItem() = null.
NoConfig == [exists |-> FALSE, deviceId |-> NullId, pairedDesktopId |-> NullDesktop]

\* ---------------------------------------------------------------- results
MsgDeviceIdNotInitialized == <<"Device ID not initialized">>
MsgTokenNotFound == <<"Invalid code: Token not found. Please regenerate the QR code.">>
MsgExpired == <<"Pairing code has expired. Please regenerate the QR code.">>
MsgAlreadyUsed == <<"This pairing code has already been used.">>
MsgPairingError(detail) == <<"Pairing error: ", detail>>

NoResult == [kind |-> "none", success |-> FALSE, message |-> <<>>]
Success == [kind |-> "returned", success |-> TRUE, message |-> <<>>]
Failure(msg) == [kind |-> "returned", success |-> FALSE, message |-> msg]
Thrown(detail) == [kind |-> "thrown", success |-> FALSE, message |-> <<detail>>]

VARIABLES
  \* the shared store
  pairing,        \* pairing/{token}
  devices,        \* devices/{deviceId}
  \* one installation per element of Devices
  storage,        \* AsyncStorage item @jarvis_device_config
  deviceId,       \* PairingManager.deviceId (NullId = null)
  generated,      \* how many identifiers the installation has generated
  now,            \* the clock, Math.floor(Date.now() / 1000)
  \* the public PairingManager call in flight on each installation
  pc,             \* the await the call is suspended at ("idle": none)
  op,             \* "submit" | "unpair" | "getDeviceId" | "isPaired" | "presence" |
                  \* "construct" (the constructor's _initializeDeviceId) | "none"
  tokenArg,       \* submitPairingToken's argument
  tokenData,      \* tokenSnapshot.val()
  currentTime,    \* currentTime of the call
  newId,          \* the deviceId local of _getOrCreateDeviceId
  result,         \* what the last call returned
  \* history of the current (or last) call
  writes,         \* the writes it performed, in order
  rejected,       \* the awaits of it that rejected, in order
  freshAtStart,   \* its token was present, unused and unexpired when it started
  hasRead,        \* its get(tokenRef) resolved
  succeeded,      \* desktops of the submits that returned success since the last unpair
  reregistered,   \* devices/{id} was registered again after the last of them
  calls,          \* calls started so far
  faults          \* awaits rejected so far

VARIABLES
  \* one FirebaseService instance and its environment
  pairedDesktopId,    \* FirebaseService.pairedDesktopId
  isConnected,        \* FirebaseService.isConnected
  reconnectAttempts,  \* FirebaseService.reconnectAttempts
  reconnectDelay,     \* FirebaseService.reconnectDelay
  reconnectInterval,  \* the pending reconnect timer: its delay in ms, 0 = null
  listeners,          \* FirebaseService.listeners: key -> subscription (0: no entry)
  configured,         \* isFirebaseConfigured()
  netConnected,       \* the value of .info/connected
  subs,               \* the onValue subscriptions to .info/connected ever created
  connecting,         \* connect() calls in flight, by the await they are suspended at
  onDisconnectHooks,  \* 1 when onDisconnect(deviceRef).update is registered
  commands,           \* messages/{desktopId}/commands
  inFlight,           \* set(newCommandRef, ...) writes awaited by sendCommand
  sendLog,            \* the sendCommand calls made: what each saw and how it ended
  connectCalls,       \* connect() calls the application made
  netChanges          \* changes of .info/connected so far

VARIABLES
  \* the status inbox of the device and the listeners of the FirebaseService
  statusInbox,    \* messages/{deviceId}/status as the client sees it, in key order
  statusNextKey,  \* the key the next status message gets
  statusSubs,     \* the onValue subscriptions listenForStatus ever created
  removing,       \* remove(oldStatusRef) calls awaited by the pruning of a listener
  bursts,         \* batches of status messages the desktop wrote so far
  listens,        \* listenForStatus calls so far
  lastStamp,      \* the timestamp of the last batch the desktop wrote
  stampsInOrder   \* no batch had a smaller timestamp than the batch before it

VARIABLES
  \* the reconnect timers of the FirebaseService
  timers,         \* setTimeout callbacks of _scheduleReconnect that are pending
  timerLog,       \* delays of the timers set since the attempt counter was last reset
  failRun         \* connect() calls that failed since the last one that succeeded

VARIABLES
  \* the calls the application made on the FirebaseService
  closed,         \* disconnect() calls since its last connect() call: 0, 1, or 2 for more
  tracked         \* closed is recorded in this behaviour

VARIABLES
  \* the pairing screen
  scanData,       \* the text of the QR code, or of the manual entry field
  screen          \* the handler that ran on it, what it returned or submitted, and
                  \* the scanned flag of QRScanner

VARIABLES
  \* the _initializeDeviceId() call the PairingManager constructor started
  bgPc,           \* the await it is suspended at ("done": it has ended)
  bgNewId         \* the deviceId local of its _getOrCreateDeviceId

pairingVars ==
  <<pairing, devices, storage, deviceId, generated, now, pc, op, tokenArg, tokenData,
    currentTime, newId, result, writes, rejected, freshAtStart, hasRead, succeeded,
    reregistered, calls, faults>>

channelVars ==
  <<pairedDesktopId, isConnected, reconnectAttempts, reconnectDelay, reconnectInterval,
    listeners, configured, netConnected, subs, connecting, onDisconnectHooks, commands,
    inFlight, sendLog, connectCalls, netChanges>>

statusVars ==
  <<statusInbox, statusNextKey, statusSubs, removing, bursts, listens, lastStamp,
    stampsInOrder>>

backoffVars == <<timers, timerLog, failRun>>

lifeVars == <<closed, tracked>>

screenVars == <<scanData, screen>>

backgroundVars == <<bgPc, bgNewId>>

vars == <<pairingVars, channelVars, statusVars, backoffVars, lifeVars, screenVars, backgroundVars>>

\* ------------------------------------------------------- pure code pieces
\* Mutants of TokenCheck: one of the three tests is left out.
TokenCheckNoExistsTest(data, time) ==
  IF time > data.expiresAt THEN Failure(MsgExpired)
  ELSE IF data.used THEN Failure(MsgAlreadyUsed)
  ELSE NoResult

TokenCheckNoExpiryTest(data, time) ==
  IF ~data.exists THEN Failure(MsgTokenNotFound)
  ELSE IF data.used THEN Failure(MsgAlreadyUsed)
  ELSE NoResult

TokenCheckNoUsedTest(data, time) ==
  IF ~data.exists THEN Failure(MsgTokenNotFound)
  ELSE IF time > data.expiresAt THEN Failure(MsgExpired)
  ELSE NoResult

\* The checks of submitPairingToken on the snapshot it read, in the code's order:
\* not found, expired, already used.  NoResult: every check passed.
\* (The clock-skew test before the expiry test only logs a warning.)
TokenCheck(data, time) ==
  IF ~data.exists THEN Failure(MsgTokenNotFound)
  ELSE IF time > data.expiresAt THEN Failure(MsgExpired)
  ELSE IF data.used THEN Failure(MsgAlreadyUsed)
  ELSE NoResult

\* Mutant of MarkUsed: the used flag is left out of the update.
MarkUsedWithoutFlag(rec, id, time) ==
  [rec EXCEPT !.exists = TRUE, !.mobileId = id, !.usedAt = time]

\* update(tokenRef, {used: true, mobileId: this.deviceId, usedAt: currentTime})
MarkUsed(rec, id, time) ==
  [rec EXCEPT !.exists = TRUE, !.used = TRUE, !.mobileId = id, !.usedAt = time]

\* Mutant of RegisteredDevice: pairedWith is left out of the record.
RegisteredDeviceWithoutDesktop(desktop) ==
  [exists |-> TRUE, paired |-> TRUE, pairedWith |-> NullDesktop, online |-> FALSE]

\* set(deviceRef, {type: 'mobile', paired: true, pairedWith: desktopId, ...}): the
\* whole record is replaced, so it has no online field afterwards.
RegisteredDevice(desktop) ==
  [exists |-> TRUE, paired |-> TRUE, pairedWith |-> desktop, online |-> FALSE]

\* Mutant of UnpairedDevice: pairedWith is left out of the update.
UnpairedDeviceKeepsDesktop(rec) == [rec EXCEPT !.exists = TRUE, !.paired = FALSE]

\* update(deviceRef, {paired: false, pairedWith: null, unpairedAt: ...})
UnpairedDevice(rec) ==
  [rec EXCEPT !.exists = TRUE, !.paired = FALSE, !.pairedWith = NullDesktop]

\* The DeviceConfig _saveDeviceConfig serialises.
DeviceConfig(id, desktop) ==
  [exists |-> TRUE, deviceId |-> id, pairedDesktopId |-> desktop]

\* Mutant of CatchSubmit: the error is rethrown to the caller.
CatchSubmitRethrows(detail) == Thrown(detail)

\* The catch of submitPairingToken: every thrown error becomes a result.
CatchSubmit(detail) == Failure(MsgPairingError(detail))

\* The catch of unpair: return false.
CatchUnpair(detail) == Failure(<<>>)

\* The catch of isPaired: return false.
CatchIsPaired(detail) == Failure(<<>>)

\* The catch of PairingManager.updatePresence: the error is logged, the call returns.
CatchUpdatePresence(detail) == Success

\* isPaired(): deviceData.paired === true on devices/{this.deviceId}.
IsPaired(d) ==
  /\ deviceId[d] # NullId
  /\ devices[deviceId[d]].exists
  /\ devices[deviceId[d]].paired

\* getPairedDesktopId(): deviceData.pairedWith when deviceData.paired, else null.
GetPairedDesktopId(d) ==
  IF IsPaired(d) THEN devices[deviceId[d]].pairedWith ELSE NullDesktop

\* ------------------------------------------------------------------- Init
\* The store holds two issued tokens of two desktops.  Each installation has
\* finished its constructor's background initialisation: m2 holds a persisted
\* identifier; m1 either holds one too, or the first save of its configuration
\* failed and its this.deviceId is still null.
InitPairingWith(records) ==
  /\ pairing = [t \in Tokens |->
        IF t = "pair_a" THEN IssuedToken("deskA", 0, 1)
        ELSE IF t = "pair_b" THEN IssuedToken("deskB", 0, MaxTime)
        ELSE AbsentToken]
  /\ devices = records
  /\ generated \in {g \in [Devices -> {0, 1}] : g["m2"] = 1}
  /\ deviceId = [d \in Devices |->
        IF generated[d] = 0 THEN NullId ELSE GeneratedId(d, 1)]
  /\ storage = [d \in Devices |->
        IF generated[d] = 0 THEN NoConfig ELSE DeviceConfig(GeneratedId(d, 1), NullDesktop)]
  /\ now = 0
  /\ pc = [d \in Devices |-> "idle"]
  /\ op = [d \in Devices |-> "none"]
  /\ tokenArg = [d \in Devices |-> NullToken]
  /\ tokenData = [d \in Devices |-> AbsentToken]
  /\ currentTime = [d \in Devices |-> 0]
  /\ newId = [d \in Devices |-> NullId]
  /\ result = [d \in Devices |-> NoResult]
  /\ writes = [d \in Devices |-> <<>>]
  /\ rejected = [d \in Devices |-> <<>>]
  /\ freshAtStart = [d \in Devices |-> FALSE]
  /\ hasRead = [d \in Devices |-> FALSE]
  /\ succeeded = [d \in Devices |-> <<>>]
  /\ reregistered = [d \in Devices |-> FALSE]
  /\ calls = 0
  /\ faults = 0

\* No device is registered yet.
InitPairing == InitPairingWith([i \in DeviceIds |-> AbsentDevice])

\* The state after new FirebaseService(deviceId, pairedDesktopId?): the device is
\* m1 with its persisted identifier; the desktop argument is given or not.
ServiceDeviceId == GeneratedId("m1", 1)

\* A command an earlier session left in the inbox of a desktop, already processed.
EarlierCommand == [id |-> 0, type |-> "command", text |-> "earlier", processed |-> TRUE]

InitChannel ==
  /\ pairedDesktopId \in {NullDesktop, "deskA"}
  /\ isConnected = FALSE
  /\ reconnectAttempts = 0
  /\ reconnectDelay = baseReconnectDelay
  /\ reconnectInterval = 0
  /\ listeners = [connection |-> 0, status |-> 0]
  /\ configured \in BOOLEAN
  /\ netConnected = FALSE
  /\ subs = <<>>
  /\ connecting = [signIn |-> 0, presence |-> 0]
  /\ onDisconnectHooks = 0
  /\ commands = [k \in Desktops |-> <<EarlierCommand>>]
  /\ inFlight = {}
  /\ sendLog = <<>>
  /\ connectCalls = 0
  /\ netChanges = 0
  /\ timers = 0
  /\ timerLog = <<>>
  /\ failRun = 0
  /\ closed = 0

\* Nothing was scanned or typed on the pairing screen.
IdleScreen == [handler |-> "none", out |-> [kind |-> "none"], scanned |-> FALSE]

InitScreen ==
  /\ scanData = <<>>
  /\ screen = IdleScreen

\* The _initializeDeviceId() call of every constructor has ended.
InitBackground ==
  /\ bgPc = [d \in Devices |-> "done"]
  /\ bgNewId = [d \in Devices |-> NullId]

\* No status message was written and listenForStatus was not called.
InitStatus ==
  /\ statusInbox = <<>>
  /\ statusNextKey = 1
  /\ statusSubs = <<>>
  /\ removing = <<>>
  /\ bursts = 0
  /\ listens = 0
  /\ lastStamp = 0
  /\ stampsInOrder = TRUE

\* The pairing protocol: the FirebaseService is constructed and left alone.
Init ==
  /\ InitPairing
  /\ InitChannel
  /\ InitStatus
  /\ pairedDesktopId = NullDesktop
  /\ configured = TRUE
  /\ tracked = FALSE
  /\ InitScreen
  /\ InitBackground

\* The relay channel: both installations hold their identifier, no pairing call runs.
InitService ==
  /\ InitPairing
  /\ generated = [d \in Devices |-> 1]
  /\ InitChannel
  /\ InitStatus
  /\ InitScreen
  /\ InitBackground

InitChannelSpec ==
  /\ InitService
  /\ tracked = FALSE

\* ---------------------------------------------------------------- helpers
CanReject == faults < MaxFaults

\* The awaited operation `what` of d's call rejects.
Reject(d, what) ==
  /\ CanReject
  /\ faults' = faults + 1
  /\ rejected' = [rejected EXCEPT ![d] = Append(@, what)]

NoReject == UNCHANGED <<faults, rejected>>

\* The call of d returns r.
Return(d, r) ==
  /\ pc' = [pc EXCEPT ![d] = "idle"]
  /\ result' = [result EXCEPT ![d] = r]

\* An error thrown inside d's call reaches the catch of the operation.
Throw(d, detail) ==
  Return(d, IF op[d] = "submit" THEN CatchSubmit(detail)
            ELSE IF op[d] = "unpair" THEN CatchUnpair(detail)
            ELSE IF op[d] = "isPaired" THEN CatchIsPaired(detail)
            ELSE IF op[d] = "presence" THEN CatchUpdatePresence(detail)
            ELSE Thrown(detail))

Goto(d, label) ==
  /\ pc' = [pc EXCEPT ![d] = label]
  /\ UNCHANGED result

Wrote(d, path) == writes' = [writes EXCEPT ![d] = Append(@, path)]

\* The first await of a public call whose this.deviceId is set ("idle": none).
FirstAwait(operation) ==
  IF operation = "submit" THEN "auth"
  ELSE IF operation = "unpair" THEN "unpair_update"
  ELSE IF operation = "isPaired" THEN "paired_get"
  ELSE IF operation = "presence" THEN "presence_update"
  ELSE "idle"

\* A public call starts: its locals and its history are fresh.
Begin(d, operation, t) ==
  /\ calls' = calls + 1
  /\ op' = [op EXCEPT ![d] = operation]
  /\ tokenArg' = [tokenArg EXCEPT ![d] = t]
  /\ tokenData' = [tokenData EXCEPT ![d] = AbsentToken]
  /\ currentTime' = [currentTime EXCEPT ![d] = 0]
  /\ newId' = [newId EXCEPT ![d] = NullId]
  \* getDeviceId() returns this.deviceId at once when it is set
  /\ result' = [result EXCEPT ![d] =
        IF operation = "getDeviceId" /\ deviceId[d] # NullId THEN Success ELSE NoResult]
  /\ writes' = [writes EXCEPT ![d] = <<>>]
  /\ rejected' = [rejected EXCEPT ![d] = <<>>]
  /\ freshAtStart' = [freshAtStart EXCEPT ![d] =
        /\ t # NullToken
        /\ pairing[t].exists
        /\ ~pairing[t].used
        /\ now <= pairing[t].expiresAt]
  /\ hasRead' = [hasRead EXCEPT ![d] = FALSE]
  /\ succeeded' = [succeeded EXCEPT ![d] = IF operation = "unpair" THEN <<>> ELSE @]
  /\ reregistered' = [reregistered EXCEPT ![d] = IF operation = "unpair" THEN FALSE ELSE @]
  \* if (!this.deviceId) await this._initializeDeviceId()
  /\ pc' = [pc EXCEPT ![d] = IF deviceId[d] = NullId THEN "init_get"
                             ELSE FirstAwait(operation)]
  /\ UNCHANGED <<pairing, devices, storage, deviceId, generated, now, faults>>
  /\ UNCHANGED <<channelVars, statusVars, backoffVars, lifeVars, screenVars, backgroundVars>>

\* ------------------------------------------- identity (_initializeDeviceId)
\* After _initializeDeviceId returned: submitPairingToken goes on to its own
\* sign-in (or gives up when the identifier is still missing), unpair to its update.
AfterInitialize(d, id) ==
  IF op[d] = "submit"
  THEN IF id = NullId
       THEN Return(d, Failure(MsgDeviceIdNotInitialized))
       ELSE Goto(d, "auth")
  ELSE IF FirstAwait(op[d]) # "idle" THEN Goto(d, FirstAwait(op[d]))
  ELSE Return(d, Success)

\* _getOrCreateDeviceId: a stored config with a deviceId is returned as it is.
LoadedDeviceId(config) == IF config.exists THEN config.deviceId ELSE NullId

\* await AsyncStorage.getItem(DEVICE_CONFIG_KEY) settles.  A rejection is caught
\* and logged; then, as when nothing is stored, a new identifier is generated and
\* _saveDeviceConfig(deviceId) is awaited.
InitGetItem(d) ==
  /\ pc[d] = "init_get"
  /\ \/ /\ LoadedDeviceId(storage[d]) # NullId
        /\ NoReject
        /\ deviceId' = [deviceId EXCEPT ![d] = LoadedDeviceId(storage[d])]
        /\ Goto(d, "init_auth")
        /\ UNCHANGED <<generated, newId>>
     \/ /\ \/ LoadedDeviceId(storage[d]) = NullId /\ NoReject
           \/ Reject(d, "init.getItem")
        /\ generated[d] < MaxGen
        /\ generated' = [generated EXCEPT ![d] = @ + 1]
        /\ newId' = [newId EXCEPT ![d] = GeneratedId(d, generated[d] + 1)]
        /\ Goto(d, "init_set")
        /\ UNCHANGED deviceId
  /\ UNCHANGED <<pairing, devices, storage, now, op, tokenArg, tokenData, currentTime,
                 writes, freshAtStart, hasRead, succeeded, reregistered, calls>>
  /\ UNCHANGED <<channelVars, statusVars, backoffVars, lifeVars, screenVars, backgroundVars>>

\* await this._saveDeviceConfig(deviceId) settles; on success the identifier is
\* returned and assigned to this.deviceId, and signInAnonymouslyToFirebase is awaited.
InitSetItem(d) ==
  /\ pc[d] = "init_set"
  /\ \/ /\ NoReject
        /\ storage' = [storage EXCEPT ![d] = DeviceConfig(newId[d], NullDesktop)]
        /\ deviceId' = [deviceId EXCEPT ![d] = newId[d]]
        /\ Wrote(d, "local")
        /\ Goto(d, "init_auth")
     \/ /\ Reject(d, "init.setItem")
        /\ Throw(d, "storage write failed")
        /\ UNCHANGED <<storage, deviceId, writes>>
  /\ UNCHANGED <<pairing, devices, generated, now, op, tokenArg, tokenData, currentTime,
                 newId, freshAtStart, hasRead, succeeded, reregistered, calls>>
  /\ UNCHANGED <<channelVars, statusVars, backoffVars, lifeVars, screenVars, backgroundVars>>

\* await signInAnonymouslyToFirebase() of _initializeDeviceId settles.
InitSignIn(d) ==
  /\ pc[d] = "init_auth"
  /\ \/ NoReject /\ AfterInitialize(d, deviceId[d])
     \/ Reject(d, "init.signIn") /\ Throw(d, "auth failed")
  /\ UNCHANGED <<pairing, devices, storage, deviceId, generated, now, op, tokenArg,
                 tokenData, currentTime, newId, writes, freshAtStart, hasRead, succeeded, reregistered, calls>>
  /\ UNCHANGED <<channelVars, statusVars, backoffVars, lifeVars, screenVars, backgroundVars>>

\* ------------------------------------------------------ submitPairingToken
SubmitStart(d, t) ==
  /\ pc[d] = "idle"
  /\ calls < MaxCalls
  /\ Begin(d, "submit", t)

\* await signInAnonymouslyToFirebase() of submitPairingToken settles; a rejection
\* is caught and logged, and get(tokenRef) is awaited either way.
SubmitSignIn(d) ==
  /\ pc[d] = "auth"
  /\ NoReject \/ Reject(d, "signIn")
  /\ Goto(d, "read")
  /\ UNCHANGED <<pairing, devices, storage, deviceId, generated, now, op, tokenArg,
                 tokenData, currentTime, newId, writes, freshAtStart, hasRead, succeeded, reregistered, calls>>
  /\ UNCHANGED <<channelVars, statusVars, backoffVars, lifeVars, screenVars, backgroundVars>>

\* What submitPairingToken does with the snapshot: return a failure, or issue the
\* update of the token record.
AfterGet(d, data, time) ==
  IF TokenCheck(data, time).kind = "none"
  THEN Goto(d, "update")
  ELSE Return(d, TokenCheck(data, time))

\* await get(tokenRef) settles.
SubmitGet(d) ==
  /\ pc[d] = "read"
  /\ \/ /\ NoReject
        /\ tokenData' = [tokenData EXCEPT ![d] = pairing[tokenArg[d]]]
        /\ currentTime' = [currentTime EXCEPT ![d] = now]
        /\ hasRead' = [hasRead EXCEPT ![d] = TRUE]
        /\ AfterGet(d, pairing[tokenArg[d]], now)
     \/ /\ Reject(d, "get")
        /\ Throw(d, "read failed")
        /\ UNCHANGED <<tokenData, currentTime, hasRead>>
  /\ UNCHANGED <<pairing, devices, storage, deviceId, generated, now, op, tokenArg,
                 newId, writes, freshAtStart, succeeded, reregistered, calls>>
  /\ UNCHANGED <<channelVars, statusVars, backoffVars, lifeVars, screenVars, backgroundVars>>

\* Mutant of UpdateRejected: the rejection is swallowed and pairing goes on.
UpdateRejectedIgnored(d) ==
  /\ Goto(d, "register")
  /\ UNCHANGED <<pairing, writes>>

\* The store refused update(tokenRef, ...): the error goes to the catch.
UpdateRejected(d) ==
  /\ Throw(d, "PERMISSION_DENIED")
  /\ UNCHANGED <<pairing, writes>>

\* The store applied update(tokenRef, ...); _registerDevice is called next.
UpdateApplied(d) ==
  /\ pairing' = [pairing EXCEPT ![tokenArg[d]] = MarkUsed(@, deviceId[d], currentTime[d])]
  /\ Wrote(d, "pairing")
  /\ Goto(d, "register")

\* await update(tokenRef, {used, mobileId, usedAt}) settles.
SubmitUpdate(d) ==
  /\ pc[d] = "update"
  /\ \/ NoReject /\ UpdateApplied(d)
     \/ Reject(d, "update") /\ UpdateRejected(d)
  /\ UNCHANGED <<devices, storage, deviceId, generated, now, op, tokenArg, tokenData,
                 currentTime, newId, freshAtStart, hasRead, succeeded, reregistered, calls>>
  /\ UNCHANGED <<channelVars, statusVars, backoffVars, lifeVars, screenVars, backgroundVars>>

\* await set(deviceRef, ...) of _registerDevice settles; a rejection is rethrown.
SubmitRegister(d) ==
  /\ pc[d] = "register"
  /\ \/ /\ NoReject
        /\ devices' = [devices EXCEPT ![deviceId[d]] = RegisteredDevice(tokenData[d].desktopId)]
        /\ Wrote(d, "devices")
        /\ reregistered' = [reregistered EXCEPT ![d] = TRUE]
        /\ Goto(d, "save")
     \/ /\ Reject(d, "set")
        /\ Throw(d, "PERMISSION_DENIED")
        /\ UNCHANGED <<devices, writes, reregistered>>
  /\ UNCHANGED <<pairing, storage, deviceId, generated, now, op, tokenArg, tokenData,
                 currentTime, newId, freshAtStart, hasRead, succeeded, calls>>
  /\ UNCHANGED <<channelVars, statusVars, backoffVars, lifeVars, screenVars, backgroundVars>>

\* await this._saveDeviceConfig(this.deviceId, tokenData.desktopId) settles.
SubmitSave(d) ==
  /\ pc[d] = "save"
  /\ \/ /\ NoReject
        /\ storage' = [storage EXCEPT ![d] = DeviceConfig(deviceId[d], tokenData[d].desktopId)]
        /\ Wrote(d, "local")
        /\ succeeded' = [succeeded EXCEPT ![d] = Append(@, tokenData[d].desktopId)]
        /\ reregistered' = [reregistered EXCEPT ![d] = FALSE]
        /\ Return(d, Success)
     \/ /\ Reject(d, "setItem")
        /\ Throw(d, "storage write failed")
        /\ UNCHANGED <<storage, writes, succeeded, reregistered>>
  /\ UNCHANGED <<pairing, devices, deviceId, generated, now, op, tokenArg, tokenData,
                 currentTime, newId, freshAtStart, hasRead, calls>>
  /\ UNCHANGED <<channelVars, statusVars, backoffVars, lifeVars, screenVars, backgroundVars>>

\* ------------------------------------------------------------------ unpair
UnpairStart(d) ==
  /\ pc[d] = "idle"
  /\ calls < MaxCalls
  /\ Begin(d, "unpair", NullToken)

\* await update(deviceRef, {paired: false, pairedWith: null, unpairedAt}) settles.
UnpairUpdate(d) ==
  /\ pc[d] = "unpair_update"
  /\ \/ /\ NoReject
        /\ devices' = [devices EXCEPT ![deviceId[d]] = UnpairedDevice(@)]
        /\ Wrote(d, "devices")
        /\ Goto(d, "unpair_save")
     \/ /\ Reject(d, "update")
        /\ Throw(d, "PERMISSION_DENIED")
        /\ UNCHANGED <<devices, writes>>
  /\ UNCHANGED <<pairing, storage, deviceId, generated, now, op, tokenArg, tokenData,
                 currentTime, newId, freshAtStart, hasRead, succeeded, reregistered, calls>>
  /\ UNCHANGED <<channelVars, statusVars, backoffVars, lifeVars, screenVars, backgroundVars>>

\* await this._saveDeviceConfig(this.deviceId) settles; unpair returns true.
UnpairSave(d) ==
  /\ pc[d] = "unpair_save"
  /\ \/ /\ NoReject
        /\ storage' = [storage EXCEPT ![d] = DeviceConfig(deviceId[d], NullDesktop)]
        /\ Wrote(d, "local")
        /\ Return(d, Success)
     \/ /\ Reject(d, "setItem")
        /\ Throw(d, "storage write failed")
        /\ UNCHANGED <<storage, writes>>
  /\ UNCHANGED <<pairing, devices, deviceId, generated, now, op, tokenArg, tokenData,
                 currentTime, newId, freshAtStart, hasRead, succeeded, reregistered, calls>>
  /\ UNCHANGED <<channelVars, statusVars, backoffVars, lifeVars, screenVars, backgroundVars>>

\* ------------------------------------------- restart and identity lookups
\* The application is started again: a new PairingManager, whose deviceId is null
\* and whose constructor calls _initializeDeviceId(); the stored config stays.
Restart(d) ==
  /\ pc[d] = "idle"
  /\ calls < MaxCalls
  /\ calls' = calls + 1
  /\ deviceId' = [deviceId EXCEPT ![d] = NullId]
  /\ op' = [op EXCEPT ![d] = "construct"]
  /\ pc' = [pc EXCEPT ![d] = "init_get"]
  /\ tokenArg' = [tokenArg EXCEPT ![d] = NullToken]
  /\ tokenData' = [tokenData EXCEPT ![d] = AbsentToken]
  /\ currentTime' = [currentTime EXCEPT ![d] = 0]
  /\ newId' = [newId EXCEPT ![d] = NullId]
  /\ result' = [result EXCEPT ![d] = NoResult]
  /\ writes' = [writes EXCEPT ![d] = <<>>]
  /\ rejected' = [rejected EXCEPT ![d] = <<>>]
  /\ freshAtStart' = [freshAtStart EXCEPT ![d] = FALSE]
  /\ hasRead' = [hasRead EXCEPT ![d] = FALSE]
  /\ UNCHANGED <<pairing, devices, storage, generated, now, succeeded, reregistered, faults>>
  /\ UNCHANGED <<channelVars, statusVars, backoffVars, lifeVars, screenVars, backgroundVars>>

\* getDeviceId()
GetDeviceId(d) ==
  /\ pc[d] = "idle"
  /\ calls < MaxCalls
  /\ Begin(d, "getDeviceId", NullToken)

\* isPaired()
IsPairedStart(d) ==
  /\ pc[d] = "idle"
  /\ calls < MaxCalls
  /\ Begin(d, "isPaired", NullToken)

\* What isPaired returns for the record it read: deviceData.paired === true.
PairedAnswer(rec) == IF rec.exists /\ rec.paired THEN Success ELSE Failure(<<>>)

\* await get(deviceRef) of isPaired settles.
IsPairedGet(d) ==
  /\ pc[d] = "paired_get"
  /\ \/ NoReject /\ Return(d, PairedAnswer(devices[deviceId[d]]))
     \/ Reject(d, "get") /\ Throw(d, "read failed")
  /\ UNCHANGED <<pairing, devices, storage, deviceId, generated, now, op, tokenArg,
                 tokenData, currentTime, newId, writes, freshAtStart, hasRead, succeeded,
                 reregistered, calls>>
  /\ UNCHANGED <<channelVars, statusVars, backoffVars, lifeVars, screenVars, backgroundVars>>

\* PairingManager.updatePresence()
UpdatePresenceStart(d) ==
  /\ pc[d] = "idle"
  /\ calls < MaxCalls
  /\ Begin(d, "presence", NullToken)

\* update(deviceRef, {lastSeen: Math.floor(Date.now() / 1000)}) of
\* PairingManager.updatePresence: no field the record is reduced to is written.
LastSeenWritten(rec) == [rec EXCEPT !.exists = TRUE]

\* await update(deviceRef, {lastSeen}) of PairingManager.updatePresence settles.
UpdatePresenceUpdate(d) ==
  /\ pc[d] = "presence_update"
  /\ \/ /\ NoReject
        /\ devices' = [devices EXCEPT ![deviceId[d]] = LastSeenWritten(@)]
        /\ Wrote(d, "devices")
        /\ Return(d, Success)
     \/ /\ Reject(d, "update")
        /\ Throw(d, "PERMISSION_DENIED")
        /\ UNCHANGED <<devices, writes>>
  /\ UNCHANGED <<pairing, storage, deviceId, generated, now, op, tokenArg, tokenData,
                 currentTime, newId, freshAtStart, hasRead, succeeded, reregistered, calls>>
  /\ UNCHANGED <<channelVars, statusVars, backoffVars, lifeVars, screenVars, backgroundVars>>

\* ------------------------------------------------------------------- clock
Tick ==
  /\ now < MaxTime
  /\ now' = now + 1
  /\ UNCHANGED <<pairing, devices, storage, deviceId, generated, pc, op, tokenArg,
                 tokenData, currentTime, newId, result, writes, rejected, freshAtStart,
                 hasRead, succeeded, reregistered, calls, faults>>
  /\ UNCHANGED <<channelVars, statusVars, backoffVars, lifeVars, screenVars, backgroundVars>>

\* ----------------------------------------------------------- specification
Next ==
  \/ \E d \in Devices, t \in Tokens : SubmitStart(d, t)
  \/ \E d \in Devices : InitGetItem(d)
  \/ \E d \in Devices : InitSetItem(d)
  \/ \E d \in Devices : InitSignIn(d)
  \/ \E d \in Devices : SubmitSignIn(d)
  \/ \E d \in Devices : SubmitGet(d)
  \/ \E d \in Devices : SubmitUpdate(d)
  \/ \E d \in Devices : SubmitRegister(d)
  \/ \E d \in Devices : SubmitSave(d)
  \/ \E d \in Devices : UnpairStart(d)
  \/ \E d \in Devices : UnpairUpdate(d)
  \/ \E d \in Devices : UnpairSave(d)
  \/ Tick

Spec == Init /\ [][Next]_vars

\* One installation over restarts: its identity lookups, its pairing calls and
\* its presence updates.
IdentityDevices == {"m1"}

NextIdentity ==
  \/ \E d \in IdentityDevices : Restart(d)
  \/ \E d \in IdentityDevices : GetDeviceId(d)
  \/ \E d \in IdentityDevices : IsPairedStart(d)
  \/ \E d \in IdentityDevices : IsPairedGet(d)
  \/ \E d \in IdentityDevices : UpdatePresenceStart(d)
  \/ \E d \in IdentityDevices : UpdatePresenceUpdate(d)
  \/ \E d \in IdentityDevices : InitGetItem(d)
  \/ \E d \in IdentityDevices : InitSetItem(d)
  \/ \E d \in IdentityDevices : InitSignIn(d)
  \/ \E d \in IdentityDevices : SubmitStart(d, "pair_b")
  \/ \E d \in IdentityDevices : SubmitSignIn(d)
  \/ \E d \in IdentityDevices : SubmitGet(d)
  \/ \E d \in IdentityDevices : SubmitUpdate(d)
  \/ \E d \in IdentityDevices : SubmitRegister(d)
  \/ \E d \in IdentityDevices : SubmitSave(d)
  \/ \E d \in IdentityDevices : UnpairStart(d)
  \/ \E d \in IdentityDevices : UnpairUpdate(d)
  \/ \E d \in IdentityDevices : UnpairSave(d)

SpecIdentity == Init /\ [][NextIdentity]_vars

\* ------------------------------- the constructor's _initializeDeviceId()
\* The constructor does not await it: it runs beside the public calls of the
\* same PairingManager, on the same stored configuration and this.deviceId.
backgroundRest ==
  <<pairing, devices, now, pc, op, tokenArg, tokenData, currentTime, newId, result,
    writes, rejected, freshAtStart, hasRead, succeeded, reregistered, calls>>

\* await AsyncStorage.getItem(DEVICE_CONFIG_KEY) of the constructor's call settles.
BackgroundGetItem(d) ==
  /\ bgPc[d] = "init_get"
  /\ \/ /\ LoadedDeviceId(storage[d]) # NullId
        /\ UNCHANGED faults
        /\ deviceId' = [deviceId EXCEPT ![d] = LoadedDeviceId(storage[d])]
        /\ bgPc' = [bgPc EXCEPT ![d] = "init_auth"]
        /\ UNCHANGED <<generated, bgNewId>>
     \/ /\ \/ LoadedDeviceId(storage[d]) = NullId /\ UNCHANGED faults
           \/ CanReject /\ faults' = faults + 1
        /\ generated[d] < MaxGen
        /\ generated' = [generated EXCEPT ![d] = @ + 1]
        /\ bgNewId' = [bgNewId EXCEPT ![d] = GeneratedId(d, generated[d] + 1)]
        /\ bgPc' = [bgPc EXCEPT ![d] = "init_set"]
        /\ UNCHANGED deviceId
  /\ UNCHANGED <<backgroundRest, storage>>
  /\ UNCHANGED <<channelVars, statusVars, backoffVars, lifeVars, screenVars>>

\* await this._saveDeviceConfig(deviceId) of the constructor's call settles; a
\* rejection ends the call (nothing handles the promise the constructor dropped).
BackgroundSetItem(d) ==
  /\ bgPc[d] = "init_set"
  /\ \/ /\ UNCHANGED faults
        /\ storage' = [storage EXCEPT ![d] = DeviceConfig(bgNewId[d], NullDesktop)]
        /\ deviceId' = [deviceId EXCEPT ![d] = bgNewId[d]]
        /\ bgPc' = [bgPc EXCEPT ![d] = "init_auth"]
     \/ /\ CanReject
        /\ faults' = faults + 1
        /\ bgPc' = [bgPc EXCEPT ![d] = "done"]
        /\ UNCHANGED <<storage, deviceId>>
  /\ UNCHANGED <<backgroundRest, generated, bgNewId>>
  /\ UNCHANGED <<channelVars, statusVars, backoffVars, lifeVars, screenVars>>

\* await signInAnonymouslyToFirebase() of the constructor's call settles.
BackgroundSignIn(d) ==
  /\ bgPc[d] = "init_auth"
  /\ UNCHANGED faults \/ (CanReject /\ faults' = faults + 1)
  /\ bgPc' = [bgPc EXCEPT ![d] = "done"]
  /\ UNCHANGED <<backgroundRest, storage, deviceId, generated, bgNewId>>
  /\ UNCHANGED <<channelVars, statusVars, backoffVars, lifeVars, screenVars>>

\* The first launch of m1: new PairingManager() has returned, nothing is stored,
\* and the getItem of the constructor's _initializeDeviceId() is in flight.
InitFirstLaunch ==
  /\ InitPairing
  /\ generated["m1"] = 0
  /\ InitChannel
  /\ InitStatus
  /\ InitScreen
  /\ pairedDesktopId = NullDesktop
  /\ configured = TRUE
  /\ tracked = FALSE
  /\ bgPc = [d \in Devices |-> IF d = "m1" THEN "init_get" ELSE "done"]
  /\ bgNewId = [d \in Devices |-> NullId]

\* The calls ChatScreen and PairingScreen make on the new PairingManager while
\* the constructor's call may still run.
NextFirstLaunch ==
  \/ \E d \in IdentityDevices : BackgroundGetItem(d)
  \/ \E d \in IdentityDevices : BackgroundSetItem(d)
  \/ \E d \in IdentityDevices : BackgroundSignIn(d)
  \/ \E d \in IdentityDevices : GetDeviceId(d)
  \/ \E d \in IdentityDevices : IsPairedStart(d)
  \/ \E d \in IdentityDevices : IsPairedGet(d)
  \/ \E d \in IdentityDevices : InitGetItem(d)
  \/ \E d \in IdentityDevices : InitSetItem(d)
  \/ \E d \in IdentityDevices : InitSignIn(d)
  \/ \E d \in IdentityDevices : SubmitStart(d, "pair_b")
  \/ \E d \in IdentityDevices : SubmitSignIn(d)
  \/ \E d \in IdentityDevices : SubmitGet(d)
  \/ \E d \in IdentityDevices : SubmitUpdate(d)
  \/ \E d \in IdentityDevices : SubmitRegister(d)
  \/ \E d \in IdentityDevices : SubmitSave(d)

SpecFirstLaunch == InitFirstLaunch /\ [][NextFirstLaunch]_vars

\* ========================================================= FirebaseService
\* The pairing variables the FirebaseService never touches.
pairingRest ==
  <<pairing, storage, deviceId, generated, now, pc, op, tokenArg, tokenData, currentTime,
    newId, result, writes, rejected, freshAtStart, hasRead, succeeded, reregistered, calls>>

Min(a, b) == IF a < b THEN a ELSE b

RECURSIVE Pow2(_)
Pow2(n) == IF n = 0 THEN 1 ELSE 2 * Pow2(n - 1)

\* Mutant of ScheduleReconnect: the delay is not capped.
ScheduleReconnectUncapped(interval, attempts, delay) ==
  IF interval # 0 THEN [interval |-> interval, attempts |-> attempts]
  ELSE IF attempts >= maxReconnectAttempts THEN [interval |-> interval, attempts |-> attempts]
  ELSE [interval |-> delay * Pow2(attempts), attempts |-> attempts + 1]

\* Mutant of ScheduleReconnect: the attempts are not limited.
ScheduleReconnectNoLimit(interval, attempts, delay) ==
  IF interval # 0 THEN [interval |-> interval, attempts |-> attempts]
  ELSE [interval |-> Min(delay * Pow2(attempts), maxReconnectDelay),
        attempts |-> attempts + 1]

\* Mutant of ScheduleReconnect: a pending timer does not stop a new one.
ScheduleReconnectNoPendingTest(interval, attempts, delay) ==
  IF attempts >= maxReconnectAttempts THEN [interval |-> interval, attempts |-> attempts]
  ELSE [interval |-> Min(delay * Pow2(attempts), maxReconnectDelay),
        attempts |-> attempts + 1]

\* _scheduleReconnect on the timer `interval` and the counter `attempts`: nothing
\* when a timer is pending or the attempts are used up; else the counter goes up
\* and a timer of min(reconnectDelay * 2^(attempts-1), maxReconnectDelay) is set.
ScheduleReconnect(interval, attempts, delay) ==
  IF interval # 0 THEN [interval |-> interval, attempts |-> attempts]
  ELSE IF attempts >= maxReconnectAttempts THEN [interval |-> interval, attempts |-> attempts]
  ELSE [interval |-> Min(delay * Pow2(attempts), maxReconnectDelay),
        attempts |-> attempts + 1]

\* Mutant of Reschedule: the counter goes up before the test for a pending
\* timer, so a request that sets no timer is counted too.
RescheduleCountsRequests(interval, pending) ==
  LET next == ScheduleReconnect(interval, reconnectAttempts, reconnectDelay)
      created == next.attempts # reconnectAttempts
  IN /\ reconnectInterval' = next.interval
     /\ reconnectAttempts' = Min(reconnectAttempts + 1, maxReconnectAttempts)
     /\ timers' = IF created THEN pending + 1 ELSE pending
     /\ timerLog' = IF created THEN Append(timerLog, next.interval) ELSE timerLog

\* A call of _scheduleReconnect() with the timer field at `interval` and `pending`
\* timer callbacks outstanding: a timer is set exactly when the counter goes up.
Reschedule(interval, pending) ==
  LET next == ScheduleReconnect(interval, reconnectAttempts, reconnectDelay)
      created == next.attempts # reconnectAttempts
  IN /\ reconnectInterval' = next.interval
     /\ reconnectAttempts' = next.attempts
     /\ timers' = IF created THEN pending + 1 ELSE pending
     /\ timerLog' = IF created THEN Append(timerLog, next.interval) ELSE timerLog

\* The catch of connect(): _scheduleReconnect(), then the error is rethrown.
ConnectFailed(interval, pending) ==
  /\ Reschedule(interval, pending)
  /\ failRun' = failRun + 1

\* Mutant of ResetBackoff: the counter is left as it is.
ResetBackoffKeepsAttempts == [attempts |-> reconnectAttempts, delay |-> baseReconnectDelay]

\* this.reconnectAttempts = 0; this.reconnectDelay = 1000
ResetBackoff == [attempts |-> 0, delay |-> baseReconnectDelay]

\* connect() up to its first await: an unconfigured Firebase throws at once, else
\* signInAnonymouslyToFirebase() is awaited.  `interval` is the timer at the call.
ConnectBegin(interval, pending) ==
  IF configured
  THEN /\ connecting' = [connecting EXCEPT !.signIn = @ + 1]
       /\ reconnectInterval' = interval
       /\ timers' = pending
       /\ UNCHANGED <<reconnectAttempts, timerLog, failRun>>
  ELSE /\ ConnectFailed(interval, pending)
       /\ UNCHANGED connecting

\* The application calls connect().
Connect ==
  /\ connectCalls < MaxConnectCalls
  /\ connectCalls' = connectCalls + 1
  /\ closed' = 0
  /\ UNCHANGED <<tracked, screenVars, backgroundVars>>
  /\ ConnectBegin(reconnectInterval, timers)
  /\ UNCHANGED <<pairedDesktopId, isConnected, reconnectDelay, listeners, configured,
                 netConnected, subs, onDisconnectHooks, commands, inFlight, sendLog,
                 netChanges>>
  /\ UNCHANGED <<pairingRest, devices, faults>>
  /\ UNCHANGED statusVars

\* The reconnect timer fires: reconnectInterval = null, then connect().
TimerFires ==
  /\ timers > 0
  /\ ConnectBegin(0, timers - 1)
  /\ UNCHANGED <<lifeVars, screenVars, backgroundVars>>
  /\ UNCHANGED <<pairedDesktopId, isConnected, reconnectDelay, listeners, configured,
                 netConnected, subs, onDisconnectHooks, commands, inFlight, sendLog,
                 connectCalls, netChanges>>
  /\ UNCHANGED <<pairingRest, devices, faults>>
  /\ UNCHANGED statusVars

\* await signInAnonymouslyToFirebase() of connect() settles.  Resolved:
\* _setupConnectionMonitoring subscribes to .info/connected and stores the
\* unsubscribe under 'connection'; _updatePresence's update is awaited.
ConnectSignInWithin(limit, budget) ==
  /\ connecting.signIn > 0
  /\ \/ /\ Len(subs) < limit
        /\ subs' = Append(subs, [active |-> TRUE, pending |-> TRUE])
        /\ listeners' = [listeners EXCEPT !.connection = Len(subs) + 1]
        /\ connecting' = [connecting EXCEPT !.signIn = @ - 1, !.presence = @ + 1]
        /\ UNCHANGED <<reconnectInterval, reconnectAttempts, faults, backoffVars>>
     \/ /\ faults < budget
        /\ faults' = faults + 1
        /\ connecting' = [connecting EXCEPT !.signIn = @ - 1]
        /\ ConnectFailed(reconnectInterval, timers)
        /\ UNCHANGED <<subs, listeners>>
  /\ UNCHANGED <<pairedDesktopId, isConnected, reconnectDelay, configured, netConnected,
                 onDisconnectHooks, commands, inFlight, sendLog, connectCalls, netChanges>>
  /\ UNCHANGED <<pairingRest, devices>>
  /\ UNCHANGED <<statusVars, lifeVars, screenVars, backgroundVars>>

ConnectSignIn == ConnectSignInWithin(MaxSubs, MaxFaults)

\* update(deviceRef, {lastSeen, online: true, type: 'mobile'}) of _updatePresence.
PresenceWritten(rec) == [rec EXCEPT !.exists = TRUE, !.online = TRUE]

\* await this._updatePresence() of connect() settles (a rejected update is caught
\* inside it); then the onDisconnect hook is registered and the counters are reset.
ConnectPresence ==
  /\ connecting.presence > 0
  /\ connecting' = [connecting EXCEPT !.presence = @ - 1]
  /\ \/ /\ devices' = [devices EXCEPT ![ServiceDeviceId] = PresenceWritten(@)]
        /\ UNCHANGED faults
     \/ /\ CanReject
        /\ faults' = faults + 1
        /\ UNCHANGED devices
  /\ onDisconnectHooks' = 1
  /\ isConnected' = TRUE
  /\ reconnectAttempts' = ResetBackoff.attempts
  /\ reconnectDelay' = ResetBackoff.delay
  /\ timerLog' = <<>>
  /\ failRun' = 0
  /\ UNCHANGED timers
  /\ UNCHANGED <<pairedDesktopId, reconnectInterval, listeners, configured, netConnected,
                 subs, commands, inFlight, sendLog, connectCalls, netChanges>>
  /\ UNCHANGED pairingRest
  /\ UNCHANGED <<statusVars, lifeVars, screenVars, backgroundVars>>

\* Mutant of OnDisconnectUpdate: the hook is registered with set(), which
\* replaces the record.
OnDisconnectSet(rec) ==
  [exists |-> TRUE, paired |-> FALSE, pairedWith |-> NullDesktop, online |-> FALSE]

\* The update {lastSeen: serverTimestamp(), online: false} that
\* _setupDisconnectHandler registers, applied by the store to devices/{deviceId}.
OnDisconnectUpdate(rec) == [rec EXCEPT !.exists = TRUE, !.online = FALSE]

\* The session of the client drops and the store runs the registered update,
\* which is thereby used up.
SessionDrops ==
  /\ onDisconnectHooks > 0
  /\ onDisconnectHooks' = 0
  /\ devices' = [devices EXCEPT ![ServiceDeviceId] = OnDisconnectUpdate(@)]
  /\ UNCHANGED <<pairedDesktopId, isConnected, reconnectAttempts, reconnectDelay,
                 reconnectInterval, listeners, configured, netConnected, subs, connecting,
                 commands, inFlight, sendLog, connectCalls, netChanges>>
  /\ UNCHANGED <<pairingRest, faults>>
  /\ UNCHANGED statusVars
  /\ UNCHANGED <<backoffVars, lifeVars, screenVars, backgroundVars>>

\* The store's connectivity changes: every live subscription has a value to deliver.
NetChange ==
  /\ netChanges < MaxNetChanges
  /\ netChanges' = netChanges + 1
  /\ netConnected' = ~netConnected
  /\ subs' = [k \in 1..Len(subs) |-> [subs[k] EXCEPT !.pending = subs[k].active]]
  /\ UNCHANGED <<pairedDesktopId, isConnected, reconnectAttempts, reconnectDelay,
                 reconnectInterval, listeners, configured, connecting,
                 onDisconnectHooks, commands, inFlight, sendLog, connectCalls>>
  /\ UNCHANGED pairingVars
  /\ UNCHANGED statusVars
  /\ UNCHANGED <<backoffVars, lifeVars, screenVars, backgroundVars>>

\* The callback of subscription k runs with the current value of .info/connected.
ConnectionSignal(k) ==
  /\ subs[k].active
  /\ subs[k].pending
  /\ subs' = [subs EXCEPT ![k].pending = FALSE]
  /\ IF netConnected
     THEN /\ isConnected' = TRUE
          /\ reconnectAttempts' = ResetBackoff.attempts
          /\ reconnectDelay' = ResetBackoff.delay
          /\ timerLog' = <<>>
          /\ UNCHANGED <<reconnectInterval, timers, failRun>>
     ELSE /\ isConnected' = FALSE
          /\ Reschedule(reconnectInterval, timers)
          /\ UNCHANGED <<reconnectDelay, failRun>>
  /\ UNCHANGED <<pairedDesktopId, listeners, configured, netConnected, connecting,
                 onDisconnectHooks, commands, inFlight, sendLog, connectCalls, netChanges>>
  /\ UNCHANGED pairingVars
  /\ UNCHANGED <<statusVars, lifeVars, screenVars, backgroundVars>>

\* A status subscription after its unsubscribe was called: its callback never runs again,
\* so its processedMessageIds is dead.
Unsubscribed == [active |-> FALSE, pending |-> FALSE, seen |-> <<>>, delivered |-> <<>>]

\* The fields of the FirebaseService, its subscriptions and its pending timers.
ClientState ==
  [isConnected |-> isConnected, listeners |-> listeners,
   reconnectInterval |-> reconnectInterval, reconnectAttempts |-> reconnectAttempts,
   reconnectDelay |-> reconnectDelay, subs |-> subs, statusSubs |-> statusSubs,
   timers |-> timers]

\* Mutant of Disconnected: a connected client only drops its listeners, and the
\* timer is cleared by a call on a client that is not connected.
DisconnectedInTwoCalls(c) ==
  IF c.isConnected
  THEN [c EXCEPT
          !.subs = [k \in 1..Len(c.subs) |->
                      IF k = c.listeners.connection THEN [active |-> FALSE, pending |-> FALSE]
                      ELSE c.subs[k]],
          !.statusSubs = [k \in 1..Len(c.statusSubs) |->
                            IF k = c.listeners.status THEN Unsubscribed ELSE c.statusSubs[k]],
          !.listeners = [connection |-> 0, status |-> 0],
          !.isConnected = FALSE]
  ELSE [c EXCEPT
          !.reconnectInterval = 0,
          !.timers = IF c.reconnectInterval # 0 THEN c.timers - 1 ELSE c.timers]

\* disconnect() on the client c: every unsubscribe held in the listeners map is
\* called, the map is cleared, a pending reconnect timer is cleared and forgotten,
\* isConnected = false.
Disconnected(c) ==
  [c EXCEPT
     !.subs = [k \in 1..Len(c.subs) |->
                 IF k = c.listeners.connection THEN [active |-> FALSE, pending |-> FALSE]
                 ELSE c.subs[k]],
     !.statusSubs = [k \in 1..Len(c.statusSubs) |->
                       IF k = c.listeners.status THEN Unsubscribed ELSE c.statusSubs[k]],
     !.listeners = [connection |-> 0, status |-> 0],
     !.reconnectInterval = 0,
     !.timers = IF c.reconnectInterval # 0 THEN c.timers - 1 ELSE c.timers,
     !.isConnected = FALSE]

\* The application calls disconnect().
Disconnect ==
  /\ LET after == Disconnected(ClientState)
     IN /\ subs' = after.subs
        /\ statusSubs' = after.statusSubs
        /\ listeners' = after.listeners
        /\ reconnectInterval' = after.reconnectInterval
        /\ timers' = after.timers
        /\ isConnected' = after.isConnected
        /\ reconnectAttempts' = after.reconnectAttempts
        /\ reconnectDelay' = after.reconnectDelay
  /\ closed' = IF tracked THEN Min(closed + 1, 2) ELSE closed
  /\ UNCHANGED <<tracked, screenVars, backgroundVars>>
  /\ UNCHANGED <<timerLog, failRun>>
  /\ UNCHANGED <<pairedDesktopId, configured, netConnected, connecting, onDisconnectHooks,
                 commands, inFlight, sendLog, connectCalls, netChanges>>
  /\ UNCHANGED <<statusInbox, statusNextKey, removing, bursts, listens, lastStamp,
                 stampsInOrder>>
  /\ UNCHANGED pairingVars

\* setPairedDesktopId(desktopId)
SetPairedDesktopId(desktop) ==
  /\ pairedDesktopId # desktop
  /\ pairedDesktopId' = desktop
  /\ UNCHANGED <<isConnected, reconnectAttempts, reconnectDelay, reconnectInterval,
                 listeners, configured, netConnected, subs, connecting, onDisconnectHooks,
                 commands, inFlight, sendLog, connectCalls, netChanges>>
  /\ UNCHANGED pairingVars
  /\ UNCHANGED statusVars
  /\ UNCHANGED <<backoffVars, lifeVars, screenVars, backgroundVars>>

ErrNotPaired == "No paired desktop. Please pair with a desktop first."
ErrNotConnected == "Not connected to Firebase. Please check your connection."
CommandTexts == {"open notepad"}

\* Mutant of SendPrecondition: the connection is not tested.
SendPreconditionNoConnectionTest(desktop, connected) ==
  IF desktop = NullDesktop THEN ErrNotPaired ELSE "ok"

\* The two tests sendCommand makes before it touches the store.
SendPrecondition(desktop, connected) ==
  IF desktop = NullDesktop THEN ErrNotPaired
  ELSE IF ~connected THEN ErrNotConnected
  ELSE "ok"

\* Mutant of CommandMessage: the command is written as already processed.
CommandMessageProcessed(id, text) ==
  [id |-> id, type |-> "command", text |-> text, processed |-> TRUE]

\* The command sendCommand builds.
CommandMessage(id, text) ==
  [id |-> id, type |-> "command", text |-> text, processed |-> FALSE]

\* sendCommand(text) up to its await: it throws, or push() makes a key and
\* set(newCommandRef, commandMessage) is awaited.
SendCommand(text) ==
  /\ Len(sendLog) < MaxSends
  /\ LET outcome == SendPrecondition(pairedDesktopId, isConnected)
         id == Len(sendLog) + 1
     IN /\ sendLog' = Append(sendLog,
               [pairedDesktopId |-> pairedDesktopId, isConnected |-> isConnected,
                outcome |-> outcome, text |-> text, returned |-> 0])
        /\ inFlight' = IF outcome = "ok"
                       THEN inFlight \cup {[id |-> id, to |-> pairedDesktopId, text |-> text]}
                       ELSE inFlight
  /\ UNCHANGED <<pairedDesktopId, isConnected, reconnectAttempts, reconnectDelay,
                 reconnectInterval, listeners, configured, netConnected, subs, connecting,
                 onDisconnectHooks, commands, connectCalls, netChanges>>
  /\ UNCHANGED pairingVars
  /\ UNCHANGED statusVars
  /\ UNCHANGED <<backoffVars, lifeVars, screenVars, backgroundVars>>

\* await set(newCommandRef, commandMessage) settles: the key is returned, or the
\* error is rethrown.
SendSettles(m) ==
  /\ m \in inFlight
  /\ inFlight' = inFlight \ {m}
  /\ \/ /\ commands' = [commands EXCEPT ![m.to] = Append(@, CommandMessage(m.id, m.text))]
        /\ sendLog' = [sendLog EXCEPT ![m.id].returned = m.id]
        /\ UNCHANGED faults
     \/ /\ CanReject
        /\ faults' = faults + 1
        /\ UNCHANGED <<commands, sendLog>>
  /\ UNCHANGED <<pairedDesktopId, isConnected, reconnectAttempts, reconnectDelay,
                 reconnectInterval, listeners, configured, netConnected, subs, connecting,
                 onDisconnectHooks, connectCalls, netChanges>>
  /\ UNCHANGED <<pairingRest, devices>>
  /\ UNCHANGED statusVars
  /\ UNCHANGED <<backoffVars, lifeVars, screenVars, backgroundVars>>

NextChannel ==
  \/ Connect
  \/ TimerFires
  \/ ConnectSignIn
  \/ ConnectPresence
  \/ NetChange
  \/ \E k \in 1..Len(subs) : ConnectionSignal(k)
  \/ Disconnect
  \/ \E desktop \in {"deskA"} : SetPairedDesktopId(desktop)
  \/ \E text \in CommandTexts : SendCommand(text)
  \/ \E m \in inFlight : SendSettles(m)

SpecChannel == InitChannelSpec /\ [][NextChannel]_vars

\* The connection of the service alone: no command is sent.
NextReconnect ==
  \/ Connect
  \/ TimerFires
  \/ ConnectSignIn
  \/ ConnectPresence
  \/ NetChange
  \/ \E k \in 1..Len(subs) : ConnectionSignal(k)
  \/ Disconnect

SpecReconnect == InitChannelSpec /\ [][NextReconnect]_vars

\* =========================================================== listenForStatus
\* A status message: its push key and its timestamp field (type, message and
\* progress play no part in the listener).
StatusMessage(key, timestamp) == [key |-> key, timestamp |-> timestamp]

KeysOf(messages) == {messages[i].key : i \in 1..Len(messages)}
KeySet(keys) == {keys[i] : i \in 1..Len(keys)}

\* A stable sort by timestamp (Array.prototype.sort is stable): for each
\* timestamp in `stamps`, smallest first, the entries of `data` that carry it, in
\* the order `data` has them.
RECURSIVE SortByStamps(_, _)
SortByStamps(data, stamps) ==
  IF stamps = {} THEN <<>>
  ELSE LET least == CHOOSE t \in stamps : \A u \in stamps : t <= u
       IN SelectSeq(data, LAMBDA m : m.timestamp = least)
            \o SortByStamps(data, stamps \ {least})

StableSort(data) == SortByStamps(data, {data[i].timestamp : i \in 1..Len(data)})

\* Mutant of SortedKeys: the keys are left in key order.
SortedKeysKeyOrder(data) == data

\* statusKeys.sort((a, b) => statusData[a].timestamp - statusData[b].timestamp)
\* on the keys of the snapshot, which Object.keys gives in key order.
SortedKeys(data) == StableSort(data)

\* Mutant of KeysAfterSort: sort() returned a copy and statusKeys kept the key order.
KeysAfterSortCopy(data) == data

\* statusKeys once sortedKeys was computed: sort() works in place, so statusKeys
\* and sortedKeys are one array.
KeysAfterSort(data) == SortedKeys(data)

\* statusKeys.slice(0, statusKeys.length - 10)
OldKeys(statusKeys) == SubSeq(statusKeys, 1, Len(statusKeys) - PruneKeep)

\* Mutant of CapProcessed: the newest ids are dropped.
CapProcessedDropsNewest(ids) ==
  IF Len(ids) > ProcessedCap THEN SubSeq(ids, 1, ProcessedCap) ELSE ids

\* processedMessageIds cut back to 50: the first idsArray.length - 50 ids of the
\* set's insertion order are deleted.
CapProcessed(ids) ==
  IF Len(ids) > ProcessedCap
  THEN SubSeq(ids, Len(ids) - ProcessedCap + 1, Len(ids))
  ELSE ids

\* Mutant of HandleSnapshot: the clean-up does not depend on hasNewMessages.
HandleSnapshotAlwaysPrunes(data, seen) ==
  IF data = <<>>
  THEN [delivered |-> <<>>, removed |-> <<>>, seen |-> seen]
  ELSE LET sortedKeys == SortedKeys(data)
           processed == KeySet(seen)
           fresh == SelectSeq(sortedKeys, LAMBDA m : m.key \notin processed)
           added == seen \o [i \in 1..Len(fresh) |-> fresh[i].key]
           removed == IF Len(data) > PruneKeep
                      THEN OldKeys(KeysAfterSort(data))
                      ELSE <<>>
       IN [delivered |-> fresh, removed |-> removed, seen |-> CapProcessed(added)]

\* Mutant of HandleSnapshot: the old entries are removed before the loop that
\* delivers, which then runs over what is left.
HandleSnapshotPrunesFirst(data, seen) ==
  IF data = <<>>
  THEN [delivered |-> <<>>, removed |-> <<>>, seen |-> seen]
  ELSE LET sortedKeys == SortedKeys(data)
           processed == KeySet(seen)
           hasNewMessages == \E i \in 1..Len(data) : data[i].key \notin processed
           removed == IF hasNewMessages /\ Len(data) > PruneKeep
                      THEN OldKeys(KeysAfterSort(data))
                      ELSE <<>>
           fresh == SelectSeq(sortedKeys,
                      LAMBDA m : m.key \notin processed /\ m.key \notin KeysOf(removed))
           added == seen \o [i \in 1..Len(fresh) |-> fresh[i].key]
       IN [delivered |-> fresh, removed |-> removed, seen |-> CapProcessed(added)]

\* The onValue callback of listenForStatus on the snapshot `data`, with
\* processedMessageIds = `seen` (in insertion order): the messages passed to the
\* callback, the entries whose remove() is called, and processedMessageIds after.
HandleSnapshot(data, seen) ==
  IF data = <<>>
  THEN [delivered |-> <<>>, removed |-> <<>>, seen |-> seen]
  ELSE LET sortedKeys == SortedKeys(data)
           processed == KeySet(seen)
           fresh == SelectSeq(sortedKeys, LAMBDA m : m.key \notin processed)
           added == seen \o [i \in 1..Len(fresh) |-> fresh[i].key]
           hasNewMessages == fresh # <<>>
           removed == IF hasNewMessages /\ Len(data) > PruneKeep
                      THEN OldKeys(KeysAfterSort(data))
                      ELSE <<>>
       IN [delivered |-> fresh, removed |-> removed, seen |-> CapProcessed(added)]

\* Sizes and timestamps of the batches the desktop writes.
BurstSizes == {1, 41}
Timestamps == {1, 2}

\* Every live listener has a snapshot to handle.
Notified(listenerSubs) ==
  [k \in 1..Len(listenerSubs) |->
     [listenerSubs[k] EXCEPT !.pending = listenerSubs[k].active]]

\* The desktop pushes n status messages with one timestamp.
DesktopAppends(n, timestamp) ==
  /\ bursts < MaxBursts
  /\ bursts' = bursts + 1
  /\ statusInbox' = statusInbox \o
                      [i \in 1..n |-> StatusMessage(statusNextKey + i - 1, timestamp)]
  /\ statusNextKey' = statusNextKey + n
  /\ statusSubs' = Notified(statusSubs)
  /\ lastStamp' = timestamp
  /\ stampsInOrder' = (stampsInOrder /\ lastStamp <= timestamp)
  /\ UNCHANGED <<removing, listens>>
  /\ UNCHANGED <<pairingVars, channelVars>>
  /\ UNCHANGED <<backoffVars, lifeVars, screenVars, backgroundVars>>

\* listenForStatus(callback): the listener stored under 'status' is unsubscribed
\* and forgotten, a new subscription with an empty processedMessageIds is made
\* and stored.  onValue hands the new listener the current value.
ListenForStatus ==
  /\ listens < MaxListens
  /\ listens' = listens + 1
  /\ statusSubs' =
       Append([k \in 1..Len(statusSubs) |->
                 IF k = listeners.status THEN Unsubscribed ELSE statusSubs[k]],
              [active |-> TRUE, pending |-> TRUE, seen |-> <<>>, delivered |-> <<>>])
  /\ listeners' = [listeners EXCEPT !.status = Len(statusSubs) + 1]
  /\ UNCHANGED <<statusInbox, statusNextKey, removing, bursts, lastStamp, stampsInOrder>>
  /\ UNCHANGED <<pairedDesktopId, isConnected, reconnectAttempts, reconnectDelay,
                 reconnectInterval, configured, netConnected, subs, connecting,
                 onDisconnectHooks, commands, inFlight, sendLog, connectCalls, netChanges>>
  /\ UNCHANGED pairingVars
  /\ UNCHANGED <<backoffVars, lifeVars, screenVars, backgroundVars>>

\* The function listenForStatus call k returned: unsubscribe() of its own
\* subscription, then listeners.delete('status').
StopListening(k) ==
  /\ statusSubs' = [statusSubs EXCEPT ![k] = Unsubscribed]
  /\ listeners' = [listeners EXCEPT !.status = 0]
  /\ UNCHANGED <<statusInbox, statusNextKey, removing, bursts, listens, lastStamp,
                 stampsInOrder>>
  /\ UNCHANGED <<pairedDesktopId, isConnected, reconnectAttempts, reconnectDelay,
                 reconnectInterval, configured, netConnected, subs, connecting,
                 onDisconnectHooks, commands, inFlight, sendLog, connectCalls, netChanges>>
  /\ UNCHANGED pairingVars
  /\ UNCHANGED <<backoffVars, lifeVars, screenVars, backgroundVars>>

\* The callback of listener k runs on the current snapshot.  Each remove() takes
\* its entry out of the client's view at once, which is a new value for every
\* live listener; the removes are then awaited together.
StatusSnapshot(k) ==
  /\ statusSubs[k].active
  /\ statusSubs[k].pending
  /\ LET handled == HandleSnapshot(statusInbox, statusSubs[k].seen)
         gone == KeysOf(handled.removed)
         after == [statusSubs EXCEPT ![k].pending = FALSE,
                                     ![k].seen = handled.seen,
                                     ![k].delivered = @ \o handled.delivered]
     IN /\ statusInbox' = SelectSeq(statusInbox, LAMBDA m : m.key \notin gone)
        /\ statusSubs' = IF handled.removed = <<>> THEN after ELSE Notified(after)
        /\ removing' = IF handled.removed = <<>> THEN removing
                       ELSE Append(removing, [sub |-> k, entries |-> handled.removed])
  /\ UNCHANGED <<statusNextKey, bursts, listens, lastStamp, stampsInOrder>>
  /\ UNCHANGED <<pairingVars, channelVars>>
  /\ UNCHANGED <<backoffVars, lifeVars, screenVars, backgroundVars>>

\* The entries put back in key order.
Restored(inbox, entries) ==
  LET keys == KeysOf(inbox) \cup KeysOf(entries)
      all == {inbox[i] : i \in 1..Len(inbox)} \cup {entries[i] : i \in 1..Len(entries)}
  IN [i \in 1..Cardinality(keys) |->
        CHOOSE m \in all : Cardinality({x \in keys : x <= m.key}) = i]

\* The removes of the oldest pruning settle.  Resolved: each key is deleted from
\* the processedMessageIds of its listener.  Rejected: the entries are back in the
\* client's view and processedMessageIds keeps them.
RemovesSettle ==
  /\ removing # <<>>
  /\ removing' = Tail(removing)
  /\ LET batch == Head(removing)
         gone == KeysOf(batch.entries)
     IN \/ /\ statusSubs' =
                [statusSubs EXCEPT ![batch.sub].seen =
                   SelectSeq(@, LAMBDA key : key \notin gone)]
           /\ UNCHANGED <<statusInbox, faults>>
        \/ /\ CanReject
           /\ faults' = faults + 1
           /\ statusInbox' = Restored(statusInbox, batch.entries)
           /\ statusSubs' = Notified(statusSubs)
  /\ UNCHANGED <<statusNextKey, bursts, listens, lastStamp, stampsInOrder>>
  /\ UNCHANGED <<pairingRest, devices, channelVars>>
  /\ UNCHANGED <<backoffVars, lifeVars, screenVars, backgroundVars>>

\* Mutant of MessagesAfterClear: the node of the paired desktop is removed.
MessagesAfterClearOfPaired ==
  [status |-> statusInbox, commands |-> [commands EXCEPT ![pairedDesktopId] = <<>>]]

\* remove(ref(database, `messages/${this.deviceId}`)): the node of the device
\* goes, and its status list with it; the nodes of the desktops stay.
MessagesAfterClear ==
  [status |-> <<>>, commands |-> commands]

\* clearMessages() on a node that holds messages: the remove is awaited and its
\* rejection is logged, not thrown.  On an empty node the call changes nothing.
ClearMessages ==
  /\ statusInbox # <<>>
  /\ \/ /\ statusInbox' = MessagesAfterClear.status
        /\ commands' = MessagesAfterClear.commands
        /\ statusSubs' = Notified(statusSubs)
        /\ UNCHANGED faults
     \/ /\ CanReject
        /\ faults' = faults + 1
        /\ UNCHANGED <<statusInbox, commands, statusSubs>>
  /\ UNCHANGED <<statusNextKey, removing, bursts, listens, lastStamp, stampsInOrder>>
  /\ UNCHANGED <<pairedDesktopId, isConnected, reconnectAttempts, reconnectDelay,
                 reconnectInterval, listeners, configured, netConnected, subs, connecting,
                 onDisconnectHooks, inFlight, sendLog, connectCalls, netChanges>>
  /\ UNCHANGED <<pairingRest, devices>>
  /\ UNCHANGED <<backoffVars, lifeVars, screenVars, backgroundVars>>

\* The service of a paired device, before its first listenForStatus call.
InitStatusSpec ==
  /\ InitChannelSpec
  /\ pairedDesktopId = "deskA"
  /\ configured = TRUE

\* Any number of listenForStatus calls and of calls of the functions they
\* returned, over an inbox that grows one message at a time.
NextListeners ==
  \/ ListenForStatus
  \/ \E k \in 1..Len(statusSubs) : StopListening(k)
  \/ Disconnect
  \/ \E timestamp \in Timestamps : DesktopAppends(1, timestamp)
  \/ \E k \in 1..Len(statusSubs) : StatusSnapshot(k)

SpecListeners == InitStatusSpec /\ [][NextListeners]_vars

\* One listenForStatus subscription over an inbox the desktop fills in batches.
NextStatus ==
  \/ statusSubs = <<>> /\ ListenForStatus
  \/ \E n \in BurstSizes, timestamp \in Timestamps : DesktopAppends(n, timestamp)
  \/ \E k \in 1..Len(statusSubs) : StatusSnapshot(k)
  \/ RemovesSettle

SpecStatus == InitStatusSpec /\ [][NextStatus]_vars

\* One subscription over an inbox the desktop fills one message or one more
\* than the pruning keeps at a time, with every callback and every settling that
\* is due taking place: the listener is subscribed, the client runs the callback
\* of a subscription that has a new value, and the store answers every remove.
QuiesceSizes == {1, PruneKeep + 1}

NextQuiesce ==
  \/ statusSubs = <<>> /\ ListenForStatus
  \/ \E n \in QuiesceSizes, timestamp \in Timestamps : DesktopAppends(n, timestamp)
  \/ \E k \in 1..Len(statusSubs) : StatusSnapshot(k)
  \/ RemovesSettle

SpecQuiesce ==
  /\ InitStatusSpec
  /\ [][NextQuiesce]_vars
  /\ WF_vars(statusSubs = <<>> /\ ListenForStatus)
  /\ WF_vars(\E k \in 1..Len(statusSubs) : StatusSnapshot(k))
  /\ WF_vars(RemovesSettle)

\* The calls connect() and disconnect() of the application in any order, with the
\* disconnect() calls recorded; every connect() call may get its own subscription.
InitLifecycle ==
  /\ InitService
  /\ pairedDesktopId = "deskA"
  /\ configured = TRUE
  /\ tracked = TRUE

NextLifecycle ==
  \/ Connect
  \/ TimerFires
  \/ ConnectSignInWithin(MaxSubs + 1, MaxFaults)
  \/ ConnectPresence
  \/ NetChange
  \/ \E k \in 1..Len(subs) : ConnectionSignal(k)
  \/ Disconnect

SpecLifecycle == InitLifecycle /\ [][NextLifecycle]_vars

\* The service of a device that is registered as paired with deskA, and the
\* store that runs the on-disconnect update when the session drops.
InitPresence ==
  /\ InitPairingWith([i \in DeviceIds |->
         IF i = ServiceDeviceId THEN RegisteredDevice("deskA") ELSE AbsentDevice])
  /\ generated = [d \in Devices |-> 1]
  /\ InitChannel
  /\ InitStatus
  /\ InitScreen
  /\ InitBackground
  /\ pairedDesktopId = "deskA"
  /\ configured = TRUE
  /\ tracked = FALSE

NextPresence ==
  \/ Connect
  \/ TimerFires
  \/ ConnectSignIn
  \/ ConnectPresence
  \/ NetChange
  \/ \E k \in 1..Len(subs) : ConnectionSignal(k)
  \/ Disconnect
  \/ SessionDrops

SpecPresence == InitPresence /\ [][NextPresence]_vars

\* A client whose sign-in can be rejected often enough to use up the reconnect
\* attempts after it had connected.
InitExhaust ==
  /\ InitService
  /\ pairedDesktopId = "deskA"
  /\ configured = TRUE
  /\ tracked = FALSE

NextExhaust ==
  \/ Connect
  \/ TimerFires
  \/ ConnectSignInWithin(MaxSubs + 1, MaxFaults + maxReconnectAttempts)
  \/ ConnectPresence
  \/ NetChange
  \/ \E k \in 1..Len(subs) : ConnectionSignal(k)

SpecExhaust == InitExhaust /\ [][NextExhaust]_vars

\* Every operation of the mobile core that writes to the store, on one
\* installation: its pairing calls, then the service ChatScreen makes for it
\* (connect, clearMessages, listenForStatus with its pruning, sendCommand).
PruneSizes == {PruneKeep + 1}

NextCore ==
  \/ \E d \in IdentityDevices : connectCalls = 0 /\ SubmitStart(d, "pair_b")
  \/ \E d \in IdentityDevices : SubmitSignIn(d)
  \/ \E d \in IdentityDevices : SubmitGet(d)
  \/ \E d \in IdentityDevices : SubmitUpdate(d)
  \/ \E d \in IdentityDevices : SubmitRegister(d)
  \/ \E d \in IdentityDevices : SubmitSave(d)
  \/ \E d \in IdentityDevices : connectCalls = 0 /\ UnpairStart(d)
  \/ \E d \in IdentityDevices : UnpairUpdate(d)
  \/ \E d \in IdentityDevices : UnpairSave(d)
  \/ connectCalls = 0 /\ (\A d \in IdentityDevices : pc[d] = "idle") /\ Connect
  \/ ConnectSignIn
  \/ ConnectPresence
  \/ isConnected /\ statusSubs = <<>> /\ ClearMessages
  \/ isConnected /\ statusSubs = <<>> /\ ListenForStatus
  \/ \E n \in PruneSizes : DesktopAppends(n, 1)
  \/ \E k \in 1..Len(statusSubs) : StatusSnapshot(k)
  \/ RemovesSettle
  \/ \E text \in CommandTexts : statusSubs # <<>> /\ SendCommand(text)
  \/ \E m \in inFlight : SendSettles(m)

SpecCore == InitExhaust /\ [][NextCore]_vars

\* ============================================================ pairing screen
\* Texts are sequences of characters.  The texts a camera or a keyboard hands
\* over: a leading part of "pair_" of any length, after an optional blank, and up
\* to MaxTail further characters.
Prefix == <<"p", "a", "i", "r", "_">>
TailChars == {"p", "_", " "}

RECURSIVE TextsOfLength(_)
TextsOfLength(n) ==
  IF n = 0 THEN {<<>>}
  ELSE {Append(t, c) : t \in TextsOfLength(n - 1), c \in TailChars}

Tails == UNION {TextsOfLength(n) : n \in 0..MaxTail}

ScanInputs ==
  {lead \o SubSeq(Prefix, 1, k) \o tail :
     lead \in {<<>>, <<" ">>}, k \in 0..Len(Prefix), tail \in Tails}

\* The values a string | null expression has.
Null == [kind |-> "null"]
Str(text) == [kind |-> "string", value |-> text]
Nothing == [kind |-> "none"]

\* String.prototype.startsWith
StartsWith(text, prefix) ==
  /\ Len(text) >= Len(prefix)
  /\ SubSeq(text, 1, Len(prefix)) = prefix

\* String.prototype.trim
RECURSIVE TrimStart(_)
TrimStart(text) ==
  IF text # <<>> /\ Head(text) = " " THEN TrimStart(Tail(text)) ELSE text

RECURSIVE TrimEnd(_)
TrimEnd(text) ==
  IF text # <<>> /\ text[Len(text)] = " "
  THEN TrimEnd(SubSeq(text, 1, Len(text) - 1))
  ELSE text

Trim(text) == TrimEnd(TrimStart(text))

\* Mutant of extractTokenFromQRCode: the text is trimmed before the test.
extractTokenFromQRCodeTrimmed(data) ==
  IF Trim(data) # <<>> /\ StartsWith(Trim(data), Prefix) THEN Str(data) ELSE Null

\* extractTokenFromQRCode(data): data && data.startsWith('pair_')
extractTokenFromQRCode(data) ==
  IF data # <<>> /\ StartsWith(data, Prefix) THEN Str(data) ELSE Null

\* What handleBarCodeScanned hands to onScan, which submits it.
ScanSubmits(data, scanned) ==
  IF scanned THEN Nothing
  ELSE IF data # <<>> /\ StartsWith(data, Prefix) THEN Str(data)
  ELSE Nothing

\* What handleManualPairing submits.
ManualSubmits(manualToken) ==
  IF Trim(manualToken) = <<>> THEN Nothing
  ELSE IF ~StartsWith(manualToken, Prefix) THEN Nothing
  ELSE Str(manualToken)

\* pairingManager.extractTokenFromQRCode(scanData)
ExtractToken ==
  /\ screen.handler = "none"
  /\ screen' = [screen EXCEPT !.handler = "extract",
                              !.out = extractTokenFromQRCode(scanData)]
  /\ UNCHANGED scanData
  /\ UNCHANGED <<pairingVars, channelVars, statusVars, backoffVars, lifeVars,
                 backgroundVars>>

\* The camera reports the code: handleBarCodeScanned; an accepted code sets
\* scanned, and the camera reports the code again while it is in view.
BarCodeScanned ==
  /\ screen.handler \in {"none", "scan"}
  /\ LET out == ScanSubmits(scanData, screen.scanned)
     IN screen' = [handler |-> "scan",
                   out |-> IF screen.scanned THEN screen.out ELSE out,
                   scanned |-> screen.scanned \/ out # Nothing]
  /\ UNCHANGED scanData
  /\ UNCHANGED <<pairingVars, channelVars, statusVars, backoffVars, lifeVars,
                 backgroundVars>>

\* The Pair button of the manual entry field: handleManualPairing.
ManualPairing ==
  /\ screen.handler = "none"
  /\ screen' = [screen EXCEPT !.handler = "manual", !.out = ManualSubmits(scanData)]
  /\ UNCHANGED scanData
  /\ UNCHANGED <<pairingVars, channelVars, statusVars, backoffVars, lifeVars,
                 backgroundVars>>

InitExtract ==
  /\ InitPairing
  /\ InitChannel
  /\ InitStatus
  /\ pairedDesktopId = NullDesktop
  /\ configured = TRUE
  /\ tracked = FALSE
  /\ scanData \in ScanInputs
  /\ screen = IdleScreen
  /\ InitBackground

NextExtract ==
  \/ ExtractToken
  \/ BarCodeScanned
  \/ ManualPairing

SpecExtract == InitExtract /\ [][NextExtract]_vars

\* ================================================================= claims
Range(seq) == {seq[i] : i \in 1..Len(seq)}

\* The last call of d was submitPairingToken and it has returned (or thrown).
SubmitDone(d) == op[d] = "submit" /\ pc[d] = "idle" /\ result[d].kind # "none"

\* The snapshot d's call read: present, unexpired at the call's currentTime, unused.
ReadValid(d) ==
  /\ hasRead[d]
  /\ tokenData[d].exists
  /\ currentTime[d] <= tokenData[d].expiresAt
  /\ ~tokenData[d].used

\* The awaits whose rejection the code catches and logs before going on:
\* getItem in _getOrCreateDeviceId and the sign-in of submitPairingToken itself.
SwallowedRejections == {"init.getItem", "signIn"}

\* A later submitPairingToken of d has written devices/{id} again and has not
\* (or not yet) returned success.
RegisteredAgain(d) == reregistered[d]

\* C1 (as claimed): two submitPairingToken calls of different devices for one token
\* that was present, unused and unexpired when each of them started, none of whose
\* awaited operations was rejected and whose token has not expired meanwhile:
\* exactly one of them returns success=true.
C1_ExactlyOneSucceeds ==
  \A d1, d2 \in Devices :
    ( /\ d1 # d2
      /\ SubmitDone(d1) /\ SubmitDone(d2)
      /\ tokenArg[d1] = tokenArg[d2]
      /\ freshAtStart[d1] /\ freshAtStart[d2]
      /\ rejected[d1] = <<>> /\ rejected[d2] = <<>>
      /\ now <= pairing[tokenArg[d1]].expiresAt )
    => (result[d1].success # result[d2].success)

\* C2 (as claimed): once pairing/{t} holds used=true, no step changes the record:
\* used, mobileId and usedAt stay as the first consumption wrote them.
C2_UsedRecordIsFrozen ==
  [][\A t \in Tokens :
       (pairing[t].exists /\ pairing[t].used) => pairing'[t] = pairing[t]]_vars

C4_UsedGivesAlreadyUsed ==
  \A d \in Devices :
    (SubmitDone(d) /\ hasRead[d] /\ tokenData[d].exists /\ tokenData[d].used)
      => result[d] = Failure(MsgAlreadyUsed)

\* C4 (amended): a submitPairingToken that reads a record with used=true returns
\* success=false, whoever calls it: with the "already used" message when the record
\* is unexpired (now <= expiresAt), with the "expired" message when now > expiresAt.
C4_UsedGivesAlreadyUsedOrExpired ==
  \A d \in Devices :
    (SubmitDone(d) /\ hasRead[d] /\ tokenData[d].exists /\ tokenData[d].used)
      => result[d] = IF currentTime[d] <= tokenData[d].expiresAt
                     THEN Failure(MsgAlreadyUsed)
                     ELSE Failure(MsgExpired)

\* C4 witness: a device other than the consumer was told "already used".
C4_Witness ==
  \E d \in Devices :
    /\ SubmitDone(d) /\ hasRead[d] /\ tokenData[d].used
    /\ tokenData[d].mobileId # deviceId[d]
    /\ result[d] = Failure(MsgAlreadyUsed)

\* C5: a submitPairingToken that reads a present record with now > expiresAt returns
\* success=false with the "expired" message, used or not, and writes neither the
\* token record nor a device record.
C5_ExpiredIsRejectedWithoutWrites ==
  \A d \in Devices :
    (SubmitDone(d) /\ hasRead[d] /\ tokenData[d].exists
       /\ currentTime[d] > tokenData[d].expiresAt)
      => /\ result[d] = Failure(MsgExpired)
         /\ "pairing" \notin Range(writes[d])
         /\ "devices" \notin Range(writes[d])

\* C5 witness: an unused record was read after its expiry.
C5_Witness ==
  \E d \in Devices :
    /\ SubmitDone(d) /\ hasRead[d] /\ tokenData[d].exists /\ ~tokenData[d].used
    /\ currentTime[d] > tokenData[d].expiresAt
    /\ result[d] = Failure(MsgExpired)

\* C6 (as claimed): a submitPairingToken that finds pairing/{token} absent returns
\* the token-not-found failure and has written nothing, neither to the store nor to
\* the local device configuration.
C6_AbsentGivesNotFoundNoWrite ==
  \A d \in Devices :
    (SubmitDone(d) /\ hasRead[d] /\ ~tokenData[d].exists)
      => result[d] = Failure(MsgTokenNotFound) /\ writes[d] = <<>>

\* C6 (amended): a submitPairingToken that finds pairing/{token} absent returns the
\* token-not-found failure and has written nothing to the store; its only possible
\* local write is the configuration of a device identifier it had to generate
\* because none was initialised when it was called.
C6_AbsentGivesNotFoundNoStoreWrite ==
  \A d \in Devices :
    (SubmitDone(d) /\ hasRead[d] /\ ~tokenData[d].exists)
      => /\ result[d] = Failure(MsgTokenNotFound)
         /\ writes[d] = IF newId[d] # NullId THEN <<"local">> ELSE <<>>

\* C6 witness: a call on the token that was never issued was answered "not found".
C6_Witness ==
  \E d \in Devices :
    /\ SubmitDone(d) /\ hasRead[d] /\ ~tokenData[d].exists
    /\ result[d] = Failure(MsgTokenNotFound)

\* The store rejected the update of d's submitPairingToken.
UpdateWasRejected(d) == SubmitDone(d) /\ "update" \in Range(rejected[d])

\* C7 (as claimed): when the store rejects the write that marks the token used, the
\* call returns what it returns for an already used token, does not retry and does
\* not register the device.
C7_RejectedWriteGivesAlreadyUsed ==
  \A d \in Devices :
    UpdateWasRejected(d)
      => /\ result[d] = Failure(MsgAlreadyUsed)
         /\ Cardinality({i \in 1..Len(rejected[d]) : rejected[d][i] = "update"}) = 1
         /\ "devices" \notin Range(writes[d])

\* C7 (amended): when the store rejects the write that marks the token used, the call
\* returns success=false with the generic message "Pairing error: <detail>" (not the
\* "already used" message), has awaited that write once only, and has written neither
\* the token record nor a device record.
C7_RejectedWriteGivesPairingError ==
  \A d \in Devices :
    UpdateWasRejected(d)
      => /\ result[d] = Failure(MsgPairingError("PERMISSION_DENIED"))
         /\ Cardinality({i \in 1..Len(rejected[d]) : rejected[d][i] = "update"}) = 1
         /\ "pairing" \notin Range(writes[d])
         /\ "devices" \notin Range(writes[d])

\* C7 witness: an update was rejected and the call has returned.
C7_Witness ==
  \E d \in Devices :
    /\ UpdateWasRejected(d) /\ ReadValid(d)
    /\ ~result[d].success /\ ~IsPaired(d) /\ ~pairing[tokenArg[d]].used

\* C8 (as claimed): submitPairingToken never throws, and whenever one of its awaited
\* steps fails it returns success=false with a non-empty message.
C8_AnyFailureGivesFailureResult ==
  \A d \in Devices :
    SubmitDone(d)
      => /\ result[d].kind = "returned"
         /\ rejected[d] # <<>> => (~result[d].success /\ result[d].message # <<>>)

\* C8 (amended): submitPairingToken never throws; a failure of saving the generated
\* identifier, of the sign-in of identity initialisation, of the token read, of the
\* token update, of the device registration or of the final local save makes it
\* return success=false, and every success=false result carries a non-empty message.
\* A failure of reading the stored configuration or of the call's own sign-in is
\* only logged: the call goes on and may return success=true.
C8_UncaughtFailureGivesFailureResult ==
  \A d \in Devices :
    SubmitDone(d)
      => /\ result[d].kind = "returned"
         /\ ~(Range(rejected[d]) \subseteq SwallowedRejections) => ~result[d].success
         /\ ~result[d].success => result[d].message # <<>>

\* C8 witness: a step failed and the call returned a failure with a message.
C8_Witness ==
  \E d \in Devices :
    /\ SubmitDone(d) /\ rejected[d] # <<>>
    /\ result[d].kind = "returned" /\ ~result[d].success /\ result[d].message # <<>>

\* writes[d] holds path a before path b.
WroteBefore(d, a, b) ==
  \E i, j \in 1..Len(writes[d]) : i < j /\ writes[d][i] = a /\ writes[d][j] = b

\* C9: submitPairingToken returns success=true only after it marked the token used
\* and then registered devices/{deviceId} as paired with the token's desktop; and no
\* device record written by pairing names a desktop none of whose tokens is used.
C9_SuccessAfterMarkThenRegister ==
  /\ \A d \in Devices :
       (SubmitDone(d) /\ result[d].success)
         => /\ WroteBefore(d, "pairing", "devices")
            /\ pairing[tokenArg[d]].used
            /\ pairing[tokenArg[d]].mobileId \in DeviceIds
  /\ \A d \in Devices :
       (op[d] = "submit" /\ "devices" \in Range(writes[d]))
         => /\ "pairing" \in Range(writes[d])
            /\ pairing[tokenArg[d]].used
  /\ \A i \in DeviceIds :
       (devices[i].exists /\ devices[i].paired)
         => \E t \in Tokens :
              /\ pairing[t].exists /\ pairing[t].used
              /\ pairing[t].desktopId = devices[i].pairedWith

\* C9 witness: a call has returned success.
C9_Witness ==
  \E d \in Devices :
    /\ SubmitDone(d) /\ result[d].success
    /\ pairing[tokenArg[d]].mobileId = deviceId[d]
    /\ devices[deviceId[d]].pairedWith = pairing[tokenArg[d]].desktopId

\* ---- C10
\* The call numbered n left nothing behind: no write of it is awaited and no
\* inbox holds a command of it.
NothingSentFor(n) ==
  /\ \A m \in inFlight : m.id # n
  /\ \A desktop \in Desktops :
       \A i \in 1..Len(commands[desktop]) : commands[desktop][i].id # n

\* C10: a sendCommand call made with no paired desktop fails with the NotPaired
\* error, and one made with a paired desktop while isConnected is false fails
\* with the NotConnected error; in both cases no store write of that call is ever
\* started, so no inbox receives its message, then or later.
C10_SendRejectedBeforeStore ==
  \A n \in 1..Len(sendLog) :
    /\ sendLog[n].pairedDesktopId = NullDesktop
         => sendLog[n].outcome = ErrNotPaired /\ NothingSentFor(n)
    /\ (sendLog[n].pairedDesktopId # NullDesktop /\ ~sendLog[n].isConnected)
         => sendLog[n].outcome = ErrNotConnected /\ NothingSentFor(n)

\* A call was made with a paired desktop after the connection, once established,
\* was lost again.
C10_Witness ==
  \E n \in 1..Len(sendLog) :
    /\ sendLog[n].pairedDesktopId # NullDesktop
    /\ ~sendLog[n].isConnected
    /\ sendLog[n].outcome = ErrNotConnected
    /\ devices[ServiceDeviceId].online

\* ---- C11
\* The entries of the inbox of `desktop` that carry the key `key`.
EntriesWithKey(desktop, key) ==
  {i \in 1..Len(commands[desktop]) : commands[desktop][i].id = key}

\* A sendCommand call that returned a key left exactly one entry with that key, in
\* the inbox of the desktop paired at the call and in no other, and the entry is
\* {type: command, text, processed: false} with the call's text.
SendAppendsOneCommand ==
  \A n \in 1..Len(sendLog) :
    sendLog[n].returned # 0 =>
      /\ Cardinality(EntriesWithKey(sendLog[n].pairedDesktopId, sendLog[n].returned)) = 1
      /\ \A desktop \in Desktops \ {sendLog[n].pairedDesktopId} :
           EntriesWithKey(desktop, sendLog[n].returned) = {}
      /\ \A i \in EntriesWithKey(sendLog[n].pairedDesktopId, sendLog[n].returned) :
           commands[sendLog[n].pairedDesktopId][i] =
             [id |-> sendLog[n].returned, type |-> "command",
              text |-> sendLog[n].text, processed |-> FALSE]

\* A step in which a sendCommand call returns its key adds one entry at the end of
\* that inbox, the key was in no inbox before, and every entry that was there, in
\* that inbox and in the others, is as it was.
SendLeavesOtherEntries ==
  [][\A n \in 1..Len(sendLog) :
       (sendLog[n].returned = 0 /\ sendLog'[n].returned # 0) =>
         /\ \A desktop \in Desktops : EntriesWithKey(desktop, sendLog'[n].returned) = {}
         /\ Len(commands'[sendLog[n].pairedDesktopId])
              = Len(commands[sendLog[n].pairedDesktopId]) + 1
         /\ \A desktop \in Desktops : \A i \in 1..Len(commands[desktop]) :
              commands'[desktop][i] = commands[desktop][i]
         /\ \A desktop \in Desktops \ {sendLog[n].pairedDesktopId} :
              commands'[desktop] = commands[desktop]]_vars

\* C11: a successful sendCommand(text) appends exactly one entry {type: command,
\* text, processed: false} to the inbox of the paired desktop under a key no
\* entry had before, returns that key, and changes no entry that existed.
C11_SendAppendsOneAndKeepsOthers == []SendAppendsOneCommand /\ SendLeavesOtherEntries

\* A call returned its key: its command was appended to an inbox that held an
\* earlier one.
C11_Witness ==
  \E n \in 1..Len(sendLog) :
    /\ sendLog[n].returned # 0
    /\ Len(commands[sendLog[n].pairedDesktopId]) > 1
    /\ commands[sendLog[n].pairedDesktopId][1] = EarlierCommand

\* ---- C12
\* The status subscriptions whose callback still runs.
ActiveStatusSubs == {k \in 1..Len(statusSubs) : statusSubs[k].active}

\* C12: at any time at most one status subscription of the FirebaseService is
\* active, so no status message is passed to the callbacks of two listeners that
\* are active together.
C12_AtMostOneStatusListener == Cardinality(ActiveStatusSubs) <= 1

\* ---- C13
\* The callback of listener k was called at most once with each message id.
DeliveredOnce(k) ==
  Cardinality(KeysOf(statusSubs[k].delivered)) = Len(statusSubs[k].delivered)

\* Listener k has handled the latest snapshot and was called with every id in it.
NothingSkipped(k) ==
  ~statusSubs[k].pending => KeysOf(statusInbox) \subseteq KeysOf(statusSubs[k].delivered)

\* C13: over its lifetime a listenForStatus subscription calls its callback
\* exactly once per message id: no id twice, and every id of a snapshot it has
\* handled at least once.
C13_EachIdDeliveredOnce ==
  \A k \in ActiveStatusSubs : DeliveredOnce(k) /\ NothingSkipped(k)

\* ---- C14
NonDecreasing(messages) ==
  \A i \in 1..(Len(messages) - 1) : messages[i].timestamp <= messages[i + 1].timestamp

\* C14 as stated: all the messages a listener was called with, over its lifetime,
\* have non-decreasing timestamps.
C14_TimestampsNeverDecrease ==
  \A k \in ActiveStatusSubs : NonDecreasing(statusSubs[k].delivered)

\* The messages one run of the callback of listener k adds to what it delivered.
BatchOf(k, before, after) ==
  SubSeq(after[k].delivered, Len(before[k].delivered) + 1, Len(after[k].delivered))

\* C14, amended: the messages delivered out of one snapshot have non-decreasing
\* timestamps; over the whole lifetime of the listener they do as long as no
\* batch the desktop wrote had a smaller timestamp than the one before and no
\* remove was rejected.
C14_TimestampsSortedPerSnapshot ==
  /\ [][\A k \in 1..Len(statusSubs) :
          (statusSubs[k].active /\ statusSubs'[k].active)
            => NonDecreasing(BatchOf(k, statusSubs, statusSubs'))]_vars
  /\ []((stampsInOrder /\ faults = 0) => C14_TimestampsNeverDecrease)

\* A listener was called, out of one snapshot, with messages of two timestamps
\* that the inbox held in the opposite order.
C14_Witness ==
  \E k \in ActiveStatusSubs :
    \E i \in 1..(Len(statusSubs[k].delivered) - 1) :
      /\ statusSubs[k].delivered[i].timestamp < statusSubs[k].delivered[i + 1].timestamp
      /\ statusSubs[k].delivered[i].key > statusSubs[k].delivered[i + 1].key

\* ---- C15
\* The entries of `before` that `after` no longer holds.
Gone(before, after) ==
  {before[i] : i \in {j \in 1..Len(before) : before[j].key \notin KeysOf(after)}}

\* Listener k ran its callback in this step and was called with a new message.
DeliveredNew(k) ==
  /\ statusSubs[k].active
  /\ statusSubs'[k].active
  /\ Len(statusSubs'[k].delivered) > Len(statusSubs[k].delivered)

\* Listener k ran its callback in this step and found no new message.
HandledNothingNew(k) ==
  /\ StatusSnapshot(k)
  /\ statusSubs'[k].delivered = statusSubs[k].delivered

\* C15: when the callback was called with a new message out of a snapshot of more
\* than 10 entries, it calls remove() for exactly the entries outside the 10 with
\* the greatest timestamps: 10 entries stay in the client's view, none of them
\* with a smaller timestamp than a removed one, and the removed ones are the
\* removes awaited.  A snapshot of at most 10 entries, or one with no new
\* message, has nothing removed.
C15_PruneKeepsTenMostRecent ==
  [][\A k \in 1..Len(statusSubs) :
       /\ (DeliveredNew(k) /\ Len(statusInbox) > PruneKeep) =>
            /\ Len(statusInbox') = PruneKeep
            /\ KeysOf(statusInbox') \subseteq KeysOf(statusInbox)
            /\ \A old \in Gone(statusInbox, statusInbox') :
                 \A i \in 1..Len(statusInbox') :
                   old.timestamp <= statusInbox'[i].timestamp
            /\ Len(removing') = Len(removing) + 1
            /\ removing'[Len(removing')].sub = k
            /\ {removing'[Len(removing')].entries[i] :
                  i \in 1..Len(removing'[Len(removing')].entries)}
                 = Gone(statusInbox, statusInbox')
       /\ (DeliveredNew(k) /\ Len(statusInbox) <= PruneKeep) =>
            statusInbox' = statusInbox /\ removing' = removing
       /\ HandledNothingNew(k) =>
            statusInbox' = statusInbox /\ removing' = removing]_vars

\* A pruning is awaited that removed an entry with a greater key and a smaller
\* timestamp than an entry it kept.
C15_Witness ==
  \E b \in 1..Len(removing) :
    \E i \in 1..Len(removing[b].entries) :
      \E j \in 1..Len(statusInbox) :
        /\ removing[b].entries[i].key > statusInbox[j].key
        /\ removing[b].entries[i].timestamp < statusInbox[j].timestamp

\* ---- C16
\* C16: processedMessageIds of a listener never holds more than 50 ids once its
\* callback has returned, and what a run of the callback leaves is the newest
\* part, in insertion order, of the ids it had followed by the ids it was called
\* with: the ids dropped are the oldest inserted.
C16_ProcessedIdsCapped ==
  /\ [](\A k \in 1..Len(statusSubs) : Len(statusSubs[k].seen) <= ProcessedCap)
  /\ [][\A k \in 1..Len(statusSubs) :
          DeliveredNew(k) =>
            LET batch == BatchOf(k, statusSubs, statusSubs')
                all == statusSubs[k].seen \o [i \in 1..Len(batch) |-> batch[i].key]
                kept == statusSubs'[k].seen
            IN /\ Len(kept) = IF Len(all) > ProcessedCap THEN ProcessedCap ELSE Len(all)
               /\ kept = SubSeq(all, Len(all) - Len(kept) + 1, Len(all))]_vars

\* A listener holds 50 ids after more than 50 were inserted: the first it was
\* called with is no longer among them.
C16_Witness ==
  \E k \in ActiveStatusSubs :
    /\ Len(statusSubs[k].seen) = ProcessedCap
    /\ Len(statusSubs[k].delivered) > ProcessedCap
    /\ statusSubs[k].delivered[1].key \notin KeySet(statusSubs[k].seen)

\* ---- C17
\* min(1000 * 2^k, 30000) for k = 0..9.
ExpectedDelays == <<1000, 2000, 4000, 8000, 16000, 30000, 30000, 30000, 30000, 30000>>

\* C17: the k-th reconnect timer set since the attempt counter was last reset
\* (k from 0) has the delay min(1000 * 2^k, 30000) ms.
C17_DelaysFollowBackoff ==
  \A i \in 1..Len(timerLog) : i <= Len(ExpectedDelays) /\ timerLog[i] = ExpectedDelays[i]

\* Seven timers were set in a row: the sixth and the seventh at the cap.
C17_Witness == Len(timerLog) >= 7 /\ timerLog[5] = 16000 /\ timerLog[7] = 30000

\* ---- C18
\* C18 as stated: once 10 connect() calls in a row have failed, no reconnect timer
\* is set any more.
C18_NoTimerAfterTenFailures == failRun >= maxReconnectAttempts => timers = 0

\* C18, amended: no more than 10 reconnect timers are set between two resets of
\* the attempt counter, and while the counter stands at 10 a failed connect()
\* sets none.
C18_NoTimerAfterTenTimers ==
  /\ [](Len(timerLog) <= maxReconnectAttempts)
  /\ [][(reconnectAttempts >= maxReconnectAttempts /\ failRun' = failRun + 1)
          => (timers' <= timers /\ timerLog' = timerLog
              /\ reconnectAttempts' = reconnectAttempts)]_vars

\* The tenth timer has fired, its connect() failed and no timer is pending: the
\* run, which a connect() call of the application began, has failed 11 times.
C18_Witness ==
  /\ Len(timerLog) = maxReconnectAttempts
  /\ timers = 0
  /\ reconnectInterval = 0
  /\ failRun > maxReconnectAttempts

\* ---- C19
\* A step that calls _scheduleReconnect() without being the firing of the timer:
\* a connect() of the application that fails at once, a sign-in that settles, or
\* a connectivity signal.
ScheduleRequest ==
  \/ Connect
  \/ ConnectSignIn
  \/ \E k \in 1..Len(subs) : ConnectionSignal(k)

\* C19: at most one reconnect timer is pending, and it is the one the timer field
\* holds; while it is pending, a schedule request sets no timer, leaves the timer
\* field as it is and does not raise the attempt counter.
C19_OneTimerPending ==
  /\ [](timers <= 1 /\ (timers = 1 <=> reconnectInterval # 0))
  /\ [][(reconnectInterval # 0 /\ ScheduleRequest)
          => /\ timers' = timers
             /\ reconnectInterval' = reconnectInterval
             /\ reconnectAttempts' <= reconnectAttempts
             /\ Len(timerLog') <= Len(timerLog)]_vars

\* Two connect() calls of the application failed, the second while the timer of
\* the first was pending: one timer is set and the counter stands at 1.
C19_Witness ==
  /\ connectCalls = 2
  /\ failRun = 2
  /\ timers = 1
  /\ timerLog = <<1000>>
  /\ reconnectInterval = 1000
  /\ reconnectAttempts = 1

\* ---- C20
\* C20: a step in which a connect() call completes leaves the attempt counter at
\* 0 and the base delay at 1000 ms, so a timer set next would have the delay
\* 1000 ms; and the first timer set after any reset has that delay.
C20_SuccessResetsBackoff ==
  /\ [][ConnectPresence
          => /\ reconnectAttempts' = 0
             /\ reconnectDelay' = 1000
             /\ timerLog' = <<>>
             /\ ScheduleReconnect(0, reconnectAttempts', reconnectDelay').interval = 1000]_vars
  /\ [](timerLog # <<>> => timerLog[1] = 1000)

\* A connect() completed after a failure, and a timer was set after it.
C20_Witness ==
  /\ faults > 0
  /\ devices[ServiceDeviceId].online
  /\ failRun = 0
  /\ timerLog = <<1000>>

\* C21: when disconnect() returns, no subscription this client created is still
\* active, neither a status subscription nor a subscription to .info/connected
\* of any earlier connect() call, and the client is not connected.
C21_NoSubscriptionAfterDisconnect ==
  [][Disconnect =>
       /\ \A k \in 1..Len(subs') : ~subs'[k].active
       /\ \A k \in 1..Len(statusSubs') : ~statusSubs'[k].active
       /\ ~isConnected']_vars

\* C22: from the return of disconnect() until the application next calls
\* connect(), the client is not connected, no reconnect timer is pending, no
\* reconnect timer fires into connect() and no connectivity callback runs,
\* whatever was in flight when disconnect() was called.
C22_QuietAfterDisconnect ==
  /\ [](closed > 0 => (~isConnected /\ reconnectInterval = 0 /\ timers = 0))
  /\ [][closed > 0 => ~(TimerFires \/ \E k \in 1..Len(subs) : ConnectionSignal(k))]_vars

\* C23: disconnect() is idempotent: called again on the client a disconnect()
\* call has just left, it changes none of the connected flag, the listener map,
\* the subscriptions, the reconnect timer and the attempt counter.
C23_DisconnectIsIdempotent ==
  [][Disconnect => LET left == ClientState' IN Disconnected(left) = left]_vars

\* disconnect() was called twice in a row on a client that had subscribed to
\* .info/connected.
C23_Witness ==
  /\ closed = 2
  /\ Len(subs) > 0
  /\ listeners.connection = 0
  /\ ~isConnected
  /\ reconnectInterval = 0

\* C24: a connect() that fails because Firebase is not configured schedules no
\* retry: no reconnect timer is pending afterwards and connect() runs again
\* only when the application calls it.
C24_UnconfiguredIsNotRetried ==
  /\ [](~configured => (timers = 0 /\ reconnectInterval = 0))
  /\ [][~configured => ~TimerFires]_vars

\* The reconnect attempts are used up: the counter stands at the limit, no timer
\* is pending, no connect() is running and the client is not connected.
Exhausted ==
  /\ reconnectAttempts >= maxReconnectAttempts
  /\ timers = 0
  /\ reconnectInterval = 0
  /\ connecting.signIn = 0
  /\ connecting.presence = 0
  /\ ~isConnected

\* C25: once the reconnect attempts are used up, the client stays not connected
\* and no timer is set until the application calls connect(); a connect() that
\* succeeds then makes it connected with the counters reset.
C25_ExhaustedUntilConnect ==
  /\ [][(Exhausted /\ ~Connect) => Exhausted']_vars
  /\ [][ConnectPresence =>
         (isConnected' /\ reconnectAttempts' = 0 /\ reconnectDelay' = baseReconnectDelay)]_vars

\* C26: the device identifier is created once: the identifier in the stored
\* configuration never changes once it is there, over restarts and over pairing
\* and unpair calls, and a PairingManager never holds another identifier than
\* the stored one.
C26_DeviceIdIsStable ==
  /\ [][\A d \in Devices :
          storage[d].exists =>
            (storage'[d].exists /\ storage'[d].deviceId = storage[d].deviceId)]_vars
  /\ [](\A d \in Devices :
          (storage[d].exists /\ deviceId[d] # NullId) => deviceId[d] = storage[d].deviceId)

\* C27: when only the local storage fails (getItem or setItem of the identity
\* creation rejects), a getDeviceId, submitPairingToken or isPaired call that
\* needed the identifier still gets one: once _getOrCreateDeviceId is over,
\* this.deviceId is set and nothing was thrown.
C27_StorageFailureIsNotFatal ==
  \A d \in Devices :
    (/\ op[d] \in {"getDeviceId", "submit", "isPaired"}
     /\ rejected[d] # <<>>
     /\ Range(rejected[d]) \subseteq {"init.getItem", "init.setItem"}
     /\ pc[d] \notin {"init_get", "init_set"})
    => (deviceId[d] # NullId /\ result[d].kind # "thrown")

\* unpair() of d returned true and d made no call since.
UnpairDone(d) == op[d] = "unpair" /\ pc[d] = "idle" /\ result[d] = Success

\* The writes of unpair() touch neither a token record, nor the record of
\* another device, nor an inbox.
UnpairTouchesOwnRecordOnly ==
  [][\A d \in Devices :
       (UnpairUpdate(d) \/ UnpairSave(d)) =>
         /\ pairing' = pairing
         /\ \A i \in DeviceIds \ {deviceId[d]} : devices'[i] = devices[i]
         /\ commands' = commands
         /\ statusInbox' = statusInbox]_vars

\* C28: after a successful unpair() the device's own record has paired = false
\* and pairedWith = null, so isPaired() is false and getPairedDesktopId() is
\* null; no token record, no other device record and no inbox was written.
C28_UnpairClearsOwnRecordOnly ==
  /\ [](\A d \in Devices :
          UnpairDone(d) =>
            /\ ~devices[deviceId[d]].paired
            /\ devices[deviceId[d]].pairedWith = NullDesktop
            /\ ~IsPaired(d)
            /\ GetPairedDesktopId(d) = NullDesktop)
  /\ UnpairTouchesOwnRecordOnly

\* unpair() returned true on a device that was paired through a token, which
\* is still recorded as used by it.
C28_Witness ==
  \E d \in Devices :
    /\ UnpairDone(d)
    /\ devices[deviceId[d]].exists
    /\ \E t \in Tokens : pairing[t].used /\ pairing[t].mobileId = deviceId[d]

\* The record of device id gets online = true and keeps its pairing fields, and
\* nothing else in the store changes.
PresenceEffect(id) ==
  /\ devices'[id].exists
  /\ devices'[id].online
  /\ devices'[id].paired = devices[id].paired
  /\ devices'[id].pairedWith = devices[id].pairedWith
  /\ \A i \in DeviceIds \ {id} : devices'[i] = devices[i]
  /\ pairing' = pairing
  /\ commands' = commands
  /\ statusInbox' = statusInbox

\* The presence update of FirebaseService, when the store applies it.
ServicePresenceWritesOnline ==
  [][(ConnectPresence /\ faults' = faults) => PresenceEffect(ServiceDeviceId)]_vars

\* The presence update of PairingManager.updatePresence, when the store applies it.
ManagerPresenceWritesOnline ==
  [][\A d \in Devices :
       (UpdatePresenceUpdate(d) /\ faults' = faults) => PresenceEffect(deviceId[d])]_vars

\* C29: updatePresence() writes online = true (with lastSeen) to the device's
\* own record and leaves its paired and pairedWith fields and every other
\* store path as they were.
C29_PresenceWritesOnlineOnly ==
  /\ ServicePresenceWritesOnline
  /\ ManagerPresenceWritesOnline

C31_WritesOwnPathsOnly ==
  [][/\ \A i \in DeviceIds :
          devices'[i] # devices[i] =>
            \/ i = ServiceDeviceId
            \/ \E d \in IdentityDevices : i = deviceId[d]
     /\ \A k \in Desktops :
          commands'[k] # commands[k] =>
            /\ k = pairedDesktopId
            /\ Len(commands'[k]) = Len(commands[k]) + 1
            /\ SubSeq(commands'[k], 1, Len(commands[k])) = commands[k]
            /\ commands'[k][Len(commands'[k])].type = "command"]_vars

\* The device is registered as paired, a command went to the desktop, and the
\* pruning of the status listener has removes in flight.
C31_Witness ==
  /\ devices[ServiceDeviceId].paired
  /\ Len(commands["deskA"]) = 2
  /\ removing # <<>>

\* C32: extractTokenFromQRCode(data) returns data unchanged when data starts
\* with the five characters p, a, i, r, _ and null for every other text, the
\* empty one included; and every token the pairing screen submits, scanned or
\* typed, starts with those five characters.
HasPairPrefix(text) ==
  /\ Len(text) >= 5
  /\ text[1] = "p" /\ text[2] = "a" /\ text[3] = "i" /\ text[4] = "r" /\ text[5] = "_"

C32_ExtractReturnsPairTokensOnly ==
  /\ screen.handler = "extract" =>
       /\ HasPairPrefix(scanData) => screen.out = [kind |-> "string", value |-> scanData]
       /\ ~HasPairPrefix(scanData) => screen.out = [kind |-> "null"]
  /\ (screen.handler \in {"scan", "manual"} /\ screen.out.kind = "string") =>
       HasPairPrefix(screen.out.value)

\* A text with a blank before "pair_" was given to extractTokenFromQRCode.
C32_Witness ==
  /\ screen.handler = "extract"
  /\ Len(scanData) > 5
  /\ scanData[1] = " "
  /\ HasPairPrefix(Tail(scanData))

\* C33: a submitPairingToken call that returned success=false has changed
\* nothing, whichever step failed: it wrote neither the token record nor the
\* device record in the store.  (That it did not persist a pairing follows from
\* the code's order: the configuration is saved last, and a saved one returns
\* success.)
C33_FailedSubmitChangesNothing ==
  \A d \in Devices :
    (SubmitDone(d) /\ result[d].kind = "returned" /\ ~result[d].success) =>
      /\ "pairing" \notin Range(writes[d])
      /\ "devices" \notin Range(writes[d])

\* C34: calling the function an earlier listenForStatus call returned, after a
\* later call has replaced its listener, leaves the listener map alone: the
\* current subscription stays registered under 'status'.
C34_StaleStopKeepsCurrentListener ==
  [][\A k \in 1..Len(statusSubs) :
       (StopListening(k) /\ listeners.status # 0 /\ listeners.status # k) =>
         listeners'.status = listeners.status]_vars

\* C35: on a first launch, when the constructor's identity initialisation
\* overlaps with public calls and nothing fails, only one device id is
\* generated, and once every call has completed the in-memory deviceId is the
\* persisted one.
C35_OneIdOnFirstLaunch ==
  \A d \in IdentityDevices :
    (faults = 0 /\ bgPc[d] = "done" /\ pc[d] = "idle") =>
      /\ generated[d] <= 1
      /\ deviceId[d] = LoadedDeviceId(storage[d])

\* C36: whenever the client is connected with its counters reset, no reconnect
\* timer is pending (so none can fire a connect() on the connected client).
C36_NoTimerWhileConnected ==
  (isConnected /\ reconnectAttempts = 0 /\ reconnectDelay = baseReconnectDelay) =>
    (timers = 0 /\ reconnectInterval = 0)

\* C37: after any sequence of connect() calls on one client (by the
\* application or by a reconnect timer), at most one subscription to the
\* store's connectivity signal is active.
C37_AtMostOneConnectionListener ==
  Cardinality({k \in 1..Len(subs) : subs[k].active}) <= 1

\* C38: the status listener never removes a message it has not delivered:
\* every entry a snapshot's pruning takes out of the inbox was passed to the
\* callback of that subscription, in this snapshot or an earlier one, also when
\* it arrived with a timestamp older than the entries that stay.
C38_PruneRemovesDeliveredOnly ==
  [][\A k \in 1..Len(statusSubs) :
       StatusSnapshot(k) =>
         \A i \in 1..Len(statusInbox) :
           statusInbox[i].key \notin KeysOf(statusInbox') =>
             statusInbox[i] \in Range(statusSubs'[k].delivered)]_vars

\* Removes are in flight for an entry that arrived after an entry that stays
\* and carries an older timestamp.
C38_Witness ==
  /\ removing # <<>>
  /\ \E m \in Range(Head(removing).entries) :
       \E x \in Range(statusInbox) : m.key > x.key /\ m.timestamp < x.timestamp

\* C39 as stated: once the listener is quiet (it has handled every value and no
\* remove is awaited) the inbox holds at most 10 entries.
QuietListener ==
  /\ statusSubs # <<>>
  /\ \A k \in 1..Len(statusSubs) : ~statusSubs[k].pending
  /\ removing = <<>>

C40_AttemptsBoundedAndCountTimers ==
  /\ [](reconnectAttempts \in 0..maxReconnectAttempts)
  /\ [][reconnectAttempts' > reconnectAttempts =>
          /\ reconnectAttempts' = reconnectAttempts + 1
          /\ reconnectInterval' > 0
          /\ timers' > 0
          /\ timerLog' = Append(timerLog, reconnectInterval')
          /\ (reconnectInterval = 0 \/ TimerFires)]_vars

\* The counter stands at its limit and the timer it counted last is pending.
C40_Witness ==
  /\ reconnectAttempts = maxReconnectAttempts
  /\ reconnectInterval > 0
  /\ timers > 0

====
